---- MODULE Spec2Model ----
(***************************************************************************)
(* Connection lifecycle manager of onegenui-mcp                            *)
(* (src/src/client/connection.ts, second createConnectionManager, lines    *)
(* 344-596), on top of the server registry (src/src/registry.ts) and the   *)
(* SDK client wrapper (src/unnamed/part_007).                              *)
(*                                                                         *)
(* Scheduling model: one JavaScript event loop.  A step of the model runs  *)
(* from one suspension point (await) of the manager's code to the next.    *)
(* Continuations that are already runnable (microtasks: a finally block, a *)
(* disconnect() of a client that has nothing to close) run before any      *)
(* timer or I/O completion (macrotask) is delivered; calls made by the     *)
(* application can come at any point.                                      *)
(***************************************************************************)
EXTENDS Integers, Sequences, FiniteSets, TLC

\* The server ids of the configuration the registry is built from.
ServerIds == {"a", "b"}
IdOrder == <<"a", "b">>

\* Bounds of the exploration.
MaxEvents == 3         \* calls made by the application (getClient, disconnect,
                       \* disconnectAll, registry.remove, registry.add) plus
                       \* firings of the health-check interval timer

VARIABLES
  states,              \* registry: server id -> [status, error]; "absent" = not registered
  clients,             \* manager: Map<string, McpClient>, 0 = no entry, else index in conns
  pendingConnections,  \* manager: Map<string, Promise>, 0 = no entry, else index in attempts
  conns,               \* the McpClient objects ever created
  attempts,            \* the connectPromise of every getClient that started a connect
  discs,               \* manager.disconnect calls suspended at `await client.disconnect()`
  dall,                \* the disconnectAll call (Promise.all over its disconnect calls)
  healthCheckInterval, \* TRUE while the interval timer is set
  healthCheckInFlight, \* the in-flight guard of the health-check loop
  ticks,               \* the tick bodies started by the timer
  hist,                \* call counters and history used to state the properties
  servers,             \* registry: server id -> config (the enabled flag of it)
  caches,              \* registry: server id -> cached tools, prompts, resources
  refreshes,           \* manager.refreshTools calls suspended in refreshToolsForClient
  registry,            \* registry in full: servers map, states map, handlers array
  called,              \* the last call made on the registry in full and what it did
  selection,           \* the last scoring or selection made: function, arguments, result
  qcache,              \* the query cache: its Map, counters, the clock and the last call
  exec,                \* the tool call in progress in an executor or an AI SDK tool
  wf,                  \* the workflow execution in progress in a workflow executor
  graph                \* a tool dependency graph and the last call made on it

\* The variables of the connection manager's specification (Spec), which sees
\* of a server's config and state the enabled flag, the status and the caches.
managerVars == <<states, clients, pendingConnections, conns, attempts, discs, dall,
                 healthCheckInterval, healthCheckInFlight, ticks, hist,
                 servers, caches, refreshes>>

\* The variables of the registry's own specification (RegistrySpec).
registryVars == <<registry, called>>

\* The variable of the specification of tool selection (SelectionSpec).
selectionVars == <<selection>>

\* The variable of the specification of the query cache (CacheSpec).
cacheVars == <<qcache>>

\* The variable of the specification of the tool executors (ExecutorSpec).
executorVars == <<exec>>

\* The variables of tool orchestration: a workflow executor, a dependency graph.
orchestrationVars == <<wf, graph>>

vars == <<managerVars, registryVars, selectionVars, cacheVars, executorVars,
          orchestrationVars>>

\* What the steps of each specification leave alone.
besidesManager == <<registryVars, selectionVars, cacheVars, executorVars, orchestrationVars>>
besidesRegistry == <<managerVars, selectionVars, cacheVars, executorVars, orchestrationVars>>
besidesSelection == <<managerVars, registryVars, cacheVars, executorVars, orchestrationVars>>
besidesCache == <<managerVars, registryVars, selectionVars, executorVars, orchestrationVars>>
besidesExecutor == <<managerVars, registryVars, selectionVars, cacheVars, orchestrationVars>>
besidesOrchestration == <<managerVars, registryVars, selectionVars, cacheVars,
                         executorVars>>

-----------------------------------------------------------------------------
(* Registry: states map and status setter *)

Absent == [status |-> "absent", error |-> "none"]

createServerState == [status |-> "disconnected", error |-> "none"]

hasServer(id) == states[id].status # "absent"

\* registry.setStatus: throws when the server does not exist.
setStatus(st, id, status, error) ==
  [st EXCEPT ![id] = [status |-> status, error |-> error]]

\* Manager helper: setStatus, swallowing "server might have been removed".
updateState(st, id, status, error) ==
  IF st[id].status # "absent" THEN setStatus(st, id, status, error) ELSE st

\* parseServerConfig / registry.add: the part of a config the manager reads.
createServerConfig(enabled) == [enabled |-> enabled]

\* What listTools / listPrompts / listResources of a server can return.
ToolLists == {1, 2}

PromptLists == {1}

ResourceLists == {1}

\* createServerState: tools, prompts and resources are undefined (0).
NoCache == [tools |-> 0, prompts |-> 0, resources |-> 0]

\* registry.setTools / setPrompts / setResources (they throw when the server
\* does not exist: the callers below test hasServer first).
setTools(c, id, tools) == [c EXCEPT ![id].tools = tools]

setPrompts(c, id, prompts) == [c EXCEPT ![id].prompts = prompts]

setResources(c, id, resources) == [c EXCEPT ![id].resources = resources]

-----------------------------------------------------------------------------
(* McpClient objects (createSdkClient) *)

\* A fresh client: sdkClient = null, isConnected = false.  stale counts the
\* connect() calls still running whose withTimeout wrapper already rejected;
\* closeFailed records that sdkClient.close() threw (history only).
createMcpClient(id) ==
  [id |-> id, isConnected |-> FALSE, sdk |-> FALSE, stale |-> 0, closeFailed |-> FALSE]

\* client.connect() up to its await: a new SDK client replaces sdkClient.
connectInvoked(cs, o) == [cs EXCEPT ![o].sdk = TRUE]

\* client.connect() after `await sdkClient.connect(transport)` resolved.
connectResolved(cs, o) == [cs EXCEPT ![o].isConnected = TRUE]

\* client.disconnect() has something to close only when sdkClient && isConnected.
closeNeeded(c) == c.sdk /\ c.isConnected

\* client.disconnect() after `await sdkClient.close()` resolved.
closeResolved(cs, o) == [cs EXCEPT ![o].sdk = FALSE, ![o].isConnected = FALSE]

\* manager.isConnected(serverId)
isConnected(id) == clients[id] # 0 /\ conns[clients[id]].isConnected

-----------------------------------------------------------------------------
(* Task records *)

NoEntry == [id |-> "-", obj |-> 0]

DoneAttempt ==
  [id |-> "-", obj |-> 0, pc |-> "done", cancel |-> "no", clean |-> TRUE,
   joined |-> 0, missed |-> 0, invoked |-> 0, failed |-> FALSE, cut |-> FALSE]

DoneTick == [todo |-> {}, cur |-> NoEntry, pc |-> "done", failed |-> {}, reconn |-> {}]

IdleAll == [st |-> "idle", ids |-> {}, clean |-> TRUE]

AliveAttempts(id) ==
  {k \in DOMAIN attempts : attempts[k].id = id /\ attempts[k].pc # "done"}

RunningTicks == {t \in DOMAIN ticks : ticks[t].pc # "done"}

TickHolds(t, id) ==
  ticks[t].pc # "done" /\
  (ticks[t].cur.id = id \/ \E e \in ticks[t].todo : e.id = id)

\* Continuations that are runnable without waiting for a timer or for I/O.
MicrotasksPending ==
  \/ \E k \in DOMAIN attempts : attempts[k].pc = "finally"
  \/ \E d \in DOMAIN discs : discs[d].pc = "noop"
  \/ \E t \in DOMAIN ticks : ticks[t].pc = "finally"

-----------------------------------------------------------------------------
(* The registry in full (src/src/registry.ts, createMcpRegistry): the        *)
(* servers map with every config's transport fields, the states map, the     *)
(* handlers array and the events each operation emits.  An operation is a    *)
(* function of a run x = [servers, order, states, handlers, events, calls,   *)
(* threw]: the three closure variables (order is the key order of the        *)
(* servers Map), the events emitted so far by the call, the handler          *)
(* invocations made so far, and whether the call threw.  Of a config the     *)
(* model keeps id, transport, enabled and the transport-specific fields      *)
(* (name, domain, tags and timeout are copied through unread); of a field    *)
(* it keeps 0 for undefined and 1, 2 for two values.                         *)

\* splice(d, 1): the sequence without its element d.
RemoveAt(s, d) == [i \in 1 .. (Len(s) - 1) |-> IF i < d THEN s[i] ELSE s[i + 1]]

Transports == {"stdio", "http", "local"}

TransportFields ==
  {"command", "args", "env", "cwd", "url", "headers", "module", "toolsetExport"}

\* The fields parseServerConfig copies for each transport.
FieldGroup(transport) ==
  CASE transport = "stdio" -> {"command", "args", "env", "cwd"}
    [] transport = "http" -> {"url", "headers"}
    [] transport = "local" -> {"module", "toolsetExport"}
    [] OTHER -> {}

\* The field parseServerConfig requires for each transport.
RequiredField(transport) ==
  CASE transport = "stdio" -> "command"
    [] transport = "http" -> "url"
    [] transport = "local" -> "module"
    [] OTHER -> "none"

NoConfig ==
  [id |-> "none", transport |-> "none", enabled |-> FALSE,
   f |-> [x \in TransportFields |-> 0]]

\* An entry of the servers object of a config file (McpServerConfigInput).
ServerInput(transport, required, rest, enabled) ==
  [transport |-> transport, enabled |-> enabled,
   f |-> [x \in TransportFields |->
            IF x = RequiredField(transport) THEN required
            ELSE IF x \in FieldGroup(transport) THEN rest ELSE 0]]

\* The entries the exploration draws from: valid ones of each transport, one
\* that also carries a field of another transport, one that misses its
\* required field, one of an unknown transport.
Inputs ==
  { ServerInput("stdio", 1, 1, "undefined"),
    ServerInput("stdio", 2, 0, "false"),
    ServerInput("stdio", 0, 1, "undefined"),
    [ServerInput("http", 1, 1, "undefined") EXCEPT !.f["command"] = 1],
    ServerInput("local", 1, 1, "true"),
    [ServerInput("sse", 0, 0, "undefined") EXCEPT !.f["url"] = 1] }

\* parseServerConfig(id, input): ok = FALSE when it throws; else the object
\* it returns, as its own keys and their values (a key may hold undefined).
parseServerConfig(id, input) ==
  LET enabled == IF input.enabled = "undefined" THEN TRUE ELSE input.enabled = "true"
      group == FieldGroup(input.transport)
  IN IF input.transport \notin Transports
     THEN [ok |-> FALSE, keys |-> {}, val |-> NoConfig]
     ELSE IF input.f[RequiredField(input.transport)] = 0
     THEN [ok |-> FALSE, keys |-> {}, val |-> NoConfig]
     ELSE [ok |-> TRUE,
           keys |-> {"id", "enabled", "transport"} \cup group,
           val |-> [id |-> id, transport |-> input.transport, enabled |-> enabled,
                    f |-> [x \in TransportFields |->
                             IF x \in group THEN input.f[x] ELSE 0]]]

NoState ==
  [config |-> NoConfig, status |-> "absent", error |-> "undefined",
   tools |-> 0, prompts |-> 0, resources |-> 0]

\* createServerState(config) of config-parser.ts.
newServerState(config) ==
  [config |-> config, status |-> "disconnected", error |-> "undefined",
   tools |-> 0, prompts |-> 0, resources |-> 0]

EmptyRegistry ==
  [servers |-> [id \in ServerIds |-> NoConfig], order |-> <<>>,
   states |-> [id \in ServerIds |-> NoState], handlers |-> <<>>]

\* A call starts on the registry r.
Run(r) ==
  [servers |-> r.servers, order |-> r.order, states |-> r.states,
   handlers |-> r.handlers, events |-> <<>>, calls |-> <<>>, threw |-> FALSE]

Throw(x) == [x EXCEPT !.threw = TRUE]

Event(type, serverId, error) == [type |-> type, serverId |-> serverId, error |-> error]

\* The handlers the application subscribes: one that returns, one that
\* throws, one that calls its own unsubscribe function and returns.
Handlers == {"returns", "throws", "once"}

indexOf(s, e) ==
  IF \E i \in DOMAIN s : s[i] = e
  THEN CHOOSE i \in DOMAIN s : s[i] = e /\ \A j \in 1 .. (i - 1) : s[j] # e
  ELSE 0

\* The unsubscribe function on() returns: indexOf, then splice.
unsubscribe(x, handler) ==
  IF indexOf(x.handlers, handler) # 0
  THEN [x EXCEPT !.handlers = RemoveAt(@, indexOf(@, handler))]
  ELSE x

on(x, handler) == [x EXCEPT !.handlers = Append(@, handler)]

\* emit: `for (const handler of handlers)` walks the live array by index; a
\* handler that throws is caught and logged, and the walk goes on.
RECURSIVE emitFrom(_, _, _)
emitFrom(x, i, event) ==
  IF i > Len(x.handlers) THEN x
  ELSE LET handler == x.handlers[i]
           invoked == [x EXCEPT !.calls = Append(@, [handler |-> handler, event |-> event])]
           after == IF handler = "once" THEN unsubscribe(invoked, handler) ELSE invoked
       IN emitFrom(after, i + 1, event)

emit(x, event) == emitFrom([x EXCEPT !.events = Append(@, event)], 1, event)

alreadyExistsNever(x, id) == FALSE

\* servers.has(id)
alreadyExists(x, id) == x.servers[id] # NoConfig

add(x, server) ==
  IF alreadyExists(x, server.id) THEN Throw(x)
  ELSE emit([x EXCEPT !.servers[server.id] = server,
                      !.order = Append(@, server.id),
                      !.states[server.id] = newServerState(server)],
            Event("server:added", server.id, "none"))

remove(x, serverId) ==
  IF x.servers[serverId] = NoConfig THEN x
  ELSE emit([x EXCEPT !.servers[serverId] = NoConfig,
                      !.order = RemoveAt(@, indexOf(@, serverId)),
                      !.states[serverId] = NoState],
            Event("server:removed", serverId, "none"))

\* { ...existing, ...updates, id: serverId }: every own key of updates
\* replaces the existing value, every other key keeps it.
merge(existing, updates, serverId) ==
  [id |-> serverId,
   transport |-> IF "transport" \in updates.keys THEN updates.val.transport
                 ELSE existing.transport,
   enabled |-> IF "enabled" \in updates.keys THEN updates.val.enabled
               ELSE existing.enabled,
   f |-> [k \in TransportFields |->
            IF k \in updates.keys THEN updates.val.f[k] ELSE existing.f[k]]]

update(x, serverId, updates) ==
  IF x.servers[serverId] = NoConfig THEN Throw(x)
  ELSE LET updated == merge(x.servers[serverId], updates, serverId)
       IN emit([x EXCEPT !.servers[serverId] = updated,
                         !.states[serverId].config = updated],
               Event("server:updated", serverId, "none"))

registrySetTools(x, serverId, tools) ==
  IF x.states[serverId] = NoState THEN Throw(x)
  ELSE emit([x EXCEPT !.states[serverId].tools = tools],
            Event("tools:changed", serverId, "none"))

registrySetPrompts(x, serverId, prompts) ==
  IF x.states[serverId] = NoState THEN Throw(x)
  ELSE [x EXCEPT !.states[serverId].prompts = prompts]

registrySetResources(x, serverId, resources) ==
  IF x.states[serverId] = NoState THEN Throw(x)
  ELSE [x EXCEPT !.states[serverId].resources = resources]

statusEventLevel(previousStatus, status) ==
  IF status = "connected" THEN "server:connected"
  ELSE IF status = "disconnected" THEN "server:disconnected"
  ELSE IF status = "error" THEN "server:error"
  ELSE "none"

\* The event setStatus emits for a status and the status before it.
statusEvent(previousStatus, status) ==
  IF status = "connected" /\ previousStatus # "connected" THEN "server:connected"
  ELSE IF status = "disconnected" /\ previousStatus = "connected" THEN "server:disconnected"
  ELSE IF status = "error" THEN "server:error"
  ELSE "none"

registrySetStatus(x, serverId, status, error) ==
  IF x.states[serverId] = NoState THEN Throw(x)
  ELSE LET previousStatus == x.states[serverId].status
           set == [x EXCEPT !.states[serverId].status = status,
                            !.states[serverId].error = error]
           type == statusEvent(previousStatus, status)
       IN IF type = "none" THEN set
          ELSE IF type = "server:error"
          THEN emit(set, Event(type, serverId,
                               IF error = "undefined" THEN "Unknown error" ELSE error))
          ELSE emit(set, Event(type, serverId, "none"))

entryErrorEscapes(x) == x

\* The catch of loadFromConfig's loop: the error of one entry is logged.
entryError(x) == [x EXCEPT !.threw = FALSE]

\* The loop over Object.entries(config.servers).
RECURSIVE loadEntries(_, _, _, _)
loadEntries(x, entries, i, currentIds) ==
  IF i > Len(entries) THEN x
  ELSE LET id == entries[i].id
           serverConfig == parseServerConfig(id, entries[i].input)
           tried == IF ~serverConfig.ok THEN Throw(x)
                    ELSE IF id \in currentIds THEN update(x, id, serverConfig)
                    ELSE add(x, serverConfig.val)
           handled == IF tried.threw THEN entryError(tried) ELSE tried
       IN IF handled.threw THEN handled
          ELSE loadEntries(handled, entries, i + 1, currentIds)

\* The loop over currentIdsArray.
RECURSIVE removeMissing(_, _, _, _)
removeMissing(x, currentIdsArray, i, newIds) ==
  IF i > Len(currentIdsArray) THEN x
  ELSE removeMissing(IF currentIdsArray[i] \notin newIds
                     THEN remove(x, currentIdsArray[i]) ELSE x,
                     currentIdsArray, i + 1, newIds)

\* A config file: with or without a servers object, whose entries are in the
\* order Object.entries gives them.
NoDoc == [hasServers |-> FALSE, entries |-> <<>>]

loadFromConfig(x, doc) ==
  IF ~doc.hasServers THEN Throw(x)
  ELSE LET currentIdsArray == x.order
           currentIds == {x.order[i] : i \in DOMAIN x.order}
           newIds == {doc.entries[i].id : i \in DOMAIN doc.entries}
           loaded == loadEntries(x, doc.entries, 1, currentIds)
       IN IF loaded.threw THEN loaded
          ELSE removeMissing(loaded, currentIdsArray, 1, newIds)

\* createMcpRegistry({configPath}): loadFromConfig on the empty registry.
createMcpRegistry(doc) ==
  LET x == loadFromConfig(Run(EmptyRegistry), doc)
  IN [servers |-> x.servers, order |-> x.order, states |-> x.states,
      handlers |-> x.handlers]

\* The config files the exploration draws from: no servers object, or up to
\* one entry per server id, in either order.
Entries == {[id |-> id, input |-> input] : id \in ServerIds, input \in Inputs}

Docs ==
  {NoDoc} \cup {[hasServers |-> TRUE, entries |-> <<>>]}
  \cup {[hasServers |-> TRUE, entries |-> <<e>>] : e \in Entries}
  \cup {[hasServers |-> TRUE, entries |-> <<p[1], p[2]>>] :
          p \in {q \in Entries \X Entries : q[1].id # q[2].id}}

\* The config file that lists the given servers, each a valid stdio server.
DefaultDoc(ids) ==
  [hasServers |-> TRUE,
   entries |-> [i \in 1 .. Len(ids) |->
                  [id |-> ids[i], input |-> ServerInput("stdio", 1, 1, "undefined")]]]

\* A call on the registry: its name and arguments.
NoCall ==
  [name |-> "none", id |-> "none", server |-> NoConfig,
   updates |-> [ok |-> FALSE, keys |-> {}, val |-> NoConfig],
   status |-> "none", error |-> "none", list |-> 0, doc |-> NoDoc, handler |-> "none"]

perform(x, op) ==
  CASE op.name = "add" -> add(x, op.server)
    [] op.name = "remove" -> remove(x, op.id)
    [] op.name = "update" -> update(x, op.id, op.updates)
    [] op.name = "setTools" -> registrySetTools(x, op.id, op.list)
    [] op.name = "setPrompts" -> registrySetPrompts(x, op.id, op.list)
    [] op.name = "setResources" -> registrySetResources(x, op.id, op.list)
    [] op.name = "setStatus" -> registrySetStatus(x, op.id, op.status, op.error)
    [] op.name = "loadFromConfig" -> loadFromConfig(x, op.doc)
    [] op.name = "on" -> on(x, op.handler)
    [] op.name = "unsubscribe" -> unsubscribe(x, op.handler)
    [] OTHER -> x

NotCalled == [n |-> 0, op |-> NoCall, events |-> <<>>, calls |-> <<>>, threw |-> FALSE]

-----------------------------------------------------------------------------
(* Tool selection (src/unnamed/part_008: scoreTool, selectToolsForPrompt;    *)
(* src/src/tool-selection/tool-scorer.ts: scoreTool, filterAndSortTools;     *)
(* src/src/tool-selection/ports.ts: extractKeywords; src/unnamed/part_004:   *)
(* inferDomains).  Scores are counted in hundredths (0.01), so 0.3 is 30;    *)
(* the rounding of floating-point sums is not modelled.  A text is the       *)
(* sequence of its words; words come from a small vocabulary on which        *)
(* toLowerCase, length and String.includes are tabulated.  An optional       *)
(* list is [some, v]: some = FALSE when the property is undefined.           *)

Min(a, b) == IF a <= b THEN a ELSE b

toLowerCase(word) == IF word = "File" THEN "file" ELSE word

\* cleaned.length > 2
LongerThanTwo(word) == word \notin {"io", ""}

STOP_WORDS == {"the"}

\* a.includes(b)
includes(a, b) == a = b \/ (a = "filesystem" /\ b = "file") \/ b = ""

\* extractKeywords(text)
RECURSIVE extractKeywords(_)
extractKeywords(text) ==
  IF text = <<>> THEN <<>>
  ELSE LET cleaned == toLowerCase(Head(text))
       IN (IF LongerThanTwo(cleaned) /\ cleaned \notin STOP_WORDS
           THEN <<cleaned>> ELSE <<>>) \o extractKeywords(Tail(text))

\* The domains in the order McpDomain and DOMAIN_KEYWORDS declare them.
DomainOrder ==
  <<"files", "vcs", "web", "data", "ops", "comm", "finance", "security", "ai",
    "travel", "custom">>

\* DOMAIN_KEYWORDS, cut to the words of the vocabulary.
DOMAIN_KEYWORDS(domain) ==
  CASE domain = "files" -> <<"file", "read", "filesystem">>
    [] domain = "vcs" -> <<"git">>
    [] domain = "web" -> <<"fetch">>
    [] OTHER -> <<>>

\* domainScores[domain] after the loops of inferDomains.
domainScore(keywords, domain) ==
  Cardinality({p \in (DOMAIN keywords) \X (DOMAIN DOMAIN_KEYWORDS(domain)) :
                 \/ includes(keywords[p[1]], DOMAIN_KEYWORDS(domain)[p[2]])
                 \/ includes(DOMAIN_KEYWORDS(domain)[p[2]], keywords[p[1]])})

positiveOrZero(score) == score >= 0

\* .filter(([, score]) => score > 0)
positive(score) == score > 0

\* inferDomains(keywords): the domains with a score above 0, by score
\* descending; Array.prototype.sort is stable, so ties keep the declared order.
inferDomains(keywords) ==
  LET hit == {i \in DOMAIN DomainOrder : positive(domainScore(keywords, DomainOrder[i]))}
      before(i, j) ==
        \/ domainScore(keywords, DomainOrder[i]) > domainScore(keywords, DomainOrder[j])
        \/ /\ domainScore(keywords, DomainOrder[i]) = domainScore(keywords, DomainOrder[j])
           /\ i < j
      place(i) == Cardinality({j \in hit : before(j, i)}) + 1
  IN [n \in 1 .. Cardinality(hit) |->
        DomainOrder[CHOOSE i \in hit : place(i) = n]]

None == [some |-> FALSE, v |-> <<>>]

Some(list) == [some |-> TRUE, v |-> list]

lowerAll(words) == [i \in DOMAIN words |-> toLowerCase(words[i])]

\* part_008, scoreTool step 1: every prompt keyword against every tool
\* keyword; halves counts keywordMatches in halves.
RECURSIVE keywordMatching(_, _, _, _, _)
keywordMatching(promptKeywords, toolKeywords, i, j, acc) ==
  IF i > Len(promptKeywords) THEN acc
  ELSE IF j > Len(toolKeywords)
  THEN keywordMatching(promptKeywords, toolKeywords, i + 1, 1, acc)
  ELSE LET promptKw == promptKeywords[i]
           toolKw == toolKeywords[j]
           next ==
             IF promptKw = toolKw
             THEN [halves |-> acc.halves + 2,
                   reasons |-> Append(acc.reasons, <<"exact", promptKw>>)]
             ELSE IF includes(promptKw, toolKw) \/ includes(toolKw, promptKw)
             THEN [halves |-> acc.halves + 1,
                   reasons |-> Append(acc.reasons, <<"partial", promptKw, toolKw>>)]
             ELSE acc
       IN keywordMatching(promptKeywords, toolKeywords, i, j + 1, next)

\* part_008, scoreTool step 3: every tag against every prompt keyword.
RECURSIVE tagMatching(_, _, _, _, _)
tagMatching(serverTags, promptKeywords, i, j, acc) ==
  IF i > Len(serverTags) THEN acc
  ELSE IF j > Len(promptKeywords)
  THEN tagMatching(serverTags, promptKeywords, i + 1, 1, acc)
  ELSE tagMatching(serverTags, promptKeywords, i, j + 1,
                   IF toLowerCase(serverTags[i]) = promptKeywords[j]
                   THEN [matches |-> acc.matches + 1,
                         reasons |-> Append(acc.reasons, <<"tag", serverTags[i]>>)]
                   ELSE acc)

excludedNever(context, effectiveDomain) == FALSE

\* Step 5 of both scoreTool functions: the condition of the exclusion.
excluded(context, effectiveDomain) ==
  /\ context.excludeDomains.some
  /\ effectiveDomain # "undefined"
  /\ indexOf(context.excludeDomains.v, effectiveDomain) # 0

\* part_008, scoreTool: the tool's keywords, from the parts of its name, its
\* description and its title.
toolKeywordsOf(tool) ==
  lowerAll(tool.name)
  \o (IF tool.description # <<>> THEN extractKeywords(tool.description) ELSE <<>>)
  \o (IF tool.title # <<>> THEN extractKeywords(tool.title) ELSE <<>>)

keywordScoreWraps(halves) == (halves * 5) % 55

\* Math.min(keywordMatches * 0.1, 0.5), keywordMatches counted in halves.
keywordScore(halves) == Min(halves * 5, 50)

\* scoreTool of part_008 (the one selectToolsForPrompt calls).
scoreTool(tool, serverId, serverDomain, serverTags, promptKeywords, inferredDomains, context) ==
  LET toolKeywords == toolKeywordsOf(tool)
      kw == keywordMatching(promptKeywords, toolKeywords, 1, 1,
                            [halves |-> 0, reasons |-> <<>>])
      s1 == [score |-> keywordScore(kw.halves), reasons |-> kw.reasons]
      effectiveDomain == serverDomain
      domainIndex == indexOf(inferredDomains, effectiveDomain) - 1
      s2 == IF effectiveDomain # "undefined" /\ domainIndex >= 0
            THEN [score |-> s1.score + (30 - domainIndex * 5),
                  reasons |-> Append(s1.reasons, <<"domain", effectiveDomain>>)]
            ELSE s1
      tg == tagMatching(serverTags.v, promptKeywords, 1, 1,
                        [matches |-> 0, reasons |-> <<>>])
      s3 == IF serverTags.some /\ Len(serverTags.v) > 0
            THEN [score |-> s2.score + Min(tg.matches * 10, 20),
                  reasons |-> s2.reasons \o tg.reasons]
            ELSE s2
      s4 == IF /\ context.includeDomains.some
               /\ effectiveDomain # "undefined"
               /\ indexOf(context.includeDomains.v, effectiveDomain) # 0
            THEN [score |-> s3.score + 20,
                  reasons |-> Append(s3.reasons, <<"include", effectiveDomain>>)]
            ELSE s3
      s5 == IF excluded(context, effectiveDomain)
            THEN [score |-> 0, reasons |-> << <<"excluded", effectiveDomain>> >>]
            ELSE s4
  IN [tool |-> tool, serverId |-> serverId, score |-> Min(s5.score, 100),
      matchReasons |-> s5.reasons]

\* tool-scorer.ts, scoreTool step 1: each keyword against the name, else
\* against name and description.
RECURSIVE nameMatching(_, _, _, _)
nameMatching(tool, keywords, i, acc) ==
  IF i > Len(keywords) THEN acc
  ELSE LET keyword == keywords[i]
           inName == \E n \in DOMAIN tool.name :
                       includes(toLowerCase(tool.name[n]), keyword)
           inText == \E n \in DOMAIN tool.description :
                       includes(toLowerCase(tool.description[n]), keyword)
       IN nameMatching(tool, keywords, i + 1,
            IF inName
            THEN [score |-> acc.score + 30,
                  reasons |-> Append(acc.reasons, <<"name", keyword>>)]
            ELSE IF inText
            THEN [score |-> acc.score + 10,
                  reasons |-> Append(acc.reasons, <<"desc", keyword>>)]
            ELSE acc)

\* tool-scorer.ts, scoreTool step 3: each tag counts once.
RECURSIVE tagsOnce(_, _, _, _)
tagsOnce(serverTags, keywords, i, acc) ==
  IF i > Len(serverTags) THEN acc
  ELSE LET tagLower == toLowerCase(serverTags[i])
       IN tagsOnce(serverTags, keywords, i + 1,
            IF \E k \in DOMAIN keywords :
                 includes(tagLower, keywords[k]) \/ includes(keywords[k], tagLower)
            THEN [score |-> acc.score + 10,
                  reasons |-> Append(acc.reasons, <<"tag", serverTags[i]>>)]
            ELSE acc)

\* scoreTool of tool-selection/tool-scorer.ts.
scoreToolOfScorer(tool, serverId, serverDomain, serverTags, keywords, inferredDomains, context) ==
  LET s1 == nameMatching(tool, keywords, 1, [score |-> 0, reasons |-> <<>>])
      effectiveDomain == serverDomain
      domainRank == indexOf(inferredDomains, effectiveDomain) - 1
      s2 == IF effectiveDomain # "undefined" /\ domainRank >= 0
            THEN IF domainRank = 0
                 THEN [score |-> s1.score + 40,
                       reasons |-> Append(s1.reasons, <<"domain", effectiveDomain, "primary">>)]
                 ELSE [score |-> s1.score + 20,
                       reasons |-> Append(s1.reasons, <<"domain", effectiveDomain, "secondary">>)]
            ELSE s1
      s3 == IF serverTags.some THEN tagsOnce(serverTags.v, keywords, 1, s2) ELSE s2
      s4 == IF /\ context.priorityDomains.some
               /\ effectiveDomain # "undefined"
               /\ indexOf(context.priorityDomains.v, effectiveDomain) # 0
            THEN [score |-> s3.score + 30,
                  reasons |-> Append(s3.reasons, <<"priority", effectiveDomain>>)]
            ELSE s3
      s5 == IF excluded(context, effectiveDomain)
            THEN [score |-> 0, reasons |-> << <<"excluded", effectiveDomain>> >>]
            ELSE s4
  IN [tool |-> tool, serverId |-> serverId, score |-> Min(s5.score, 100),
      matchReasons |-> s5.reasons]

sortAscending(scoredTools) ==
  LET before(i, j) ==
        \/ scoredTools[i].score < scoredTools[j].score
        \/ scoredTools[i].score = scoredTools[j].score /\ i < j
      place(i) == Cardinality({j \in DOMAIN scoredTools : before(j, i)}) + 1
  IN [n \in DOMAIN scoredTools |->
        scoredTools[CHOOSE i \in DOMAIN scoredTools : place(i) = n]]

\* scoredTools.sort((a, b) => b.score - a.score): stable, by score descending.
sortByScore(scoredTools) ==
  LET before(i, j) ==
        \/ scoredTools[i].score > scoredTools[j].score
        \/ scoredTools[i].score = scoredTools[j].score /\ i < j
      place(i) == Cardinality({j \in DOMAIN scoredTools : before(j, i)}) + 1
  IN [n \in DOMAIN scoredTools |->
        scoredTools[CHOOSE i \in DOMAIN scoredTools : place(i) = n]]

\* slice(0, maxTools)
slice(s, maxTools) == [i \in 1 .. Min(Len(s), maxTools) |-> s[i]]

\* scoredTools.filter((t) => t.score >= minScore)
RECURSIVE filter(_, _)
filter(scoredTools, minScore) ==
  IF scoredTools = <<>> THEN <<>>
  ELSE (IF Head(scoredTools).score >= minScore THEN <<Head(scoredTools)>> ELSE <<>>)
       \o filter(Tail(scoredTools), minScore)

\* filterAndSortTools of tool-selection/tool-scorer.ts.
filterAndSortTools(scoredTools, minScore, maxTools) ==
  slice(sortByScore(filter(scoredTools, minScore)), maxTools)

skippedNever(state) == FALSE

\* The three `continue` of selectToolsForPrompt: a disabled server, a server
\* in error, a server without cached tools.
skipped(state) ==
  \/ state.config.enabled = "false"
  \/ state.status = "error"
  \/ ~state.tools.some
  \/ Len(state.tools.v) = 0

\* The loop of selectToolsForPrompt over the tools of one server.
RECURSIVE scoreTools(_, _, _, _, _, _, _)
scoreTools(entry, t, promptKeywords, inferredDomains, context, minScore, scoredTools) ==
  IF t > Len(entry.state.tools.v) THEN scoredTools
  ELSE LET scored == scoreTool(entry.state.tools.v[t], entry.serverId,
                               entry.state.config.domain, entry.state.config.tags,
                               promptKeywords, inferredDomains, context)
       IN scoreTools(entry, t + 1, promptKeywords, inferredDomains, context, minScore,
                     IF scored.score >= minScore THEN Append(scoredTools, scored)
                     ELSE scoredTools)

\* The loop of selectToolsForPrompt over the entries of serverStates.
RECURSIVE scoreServers(_, _, _, _, _, _, _)
scoreServers(entries, e, promptKeywords, inferredDomains, context, minScore, scoredTools) ==
  IF e > Len(entries) THEN scoredTools
  ELSE LET state == entries[e].state
           skip == skipped(state)
       IN scoreServers(entries, e + 1, promptKeywords, inferredDomains, context, minScore,
                       IF skip THEN scoredTools
                       ELSE scoreTools(entries[e], 1, promptKeywords, inferredDomains,
                                       context, minScore, scoredTools))

DefaultMaxTools == 10

DefaultMinScore == 10

\* selectToolsForPrompt(serverStates, context, options); the entries of
\* serverStates are in the order of the Map or Record.
selectToolsForPrompt(serverStates, context, options) ==
  LET maxTools == IF options.maxTools.some THEN options.maxTools.v
                  ELSE DefaultMaxTools
      minScore == IF options.minScore.some THEN options.minScore.v
                  ELSE DefaultMinScore
      promptKeywords ==
        extractKeywords(context.prompt)
        \o (IF context.currentFile # <<>> THEN extractKeywords(context.currentFile) ELSE <<>>)
        \o (IF context.userIntent # <<>> THEN extractKeywords(context.userIntent) ELSE <<>>)
      inferredDomains == inferDomains(promptKeywords)
  IN slice(sortByScore(scoreServers(serverStates, 1, promptKeywords, inferredDomains,
                                    context, minScore, <<>>)),
           maxTools)

\* Nothing has been scored or selected yet.
NotSelected == [fn |-> "none"]

-----------------------------------------------------------------------------
(* The query cache (src/src/tool-selection/use-case.ts, createQueryCache):   *)
(* the closure variables cache, hits and misses and the parameter maxSize.   *)
(* The Map is the sequence of its entries in key order (insertion order; a   *)
(* set of a key the Map holds keeps the key's place).  A CachedQueryResult   *)
(* is [query, tools, timestamp, ttl]; tools is kept as a number.             *)

DEFAULT_TTL == 300000

DEFAULT_MAX_SIZE == 100

\* The place of the key in the Map, 0 if the Map has no such key.
keyIndex(cache, query) ==
  IF \E i \in DOMAIN cache : cache[i].query = query
  THEN CHOOSE i \in DOMAIN cache : cache[i].query = query
  ELSE 0

\* cache.delete(query)
mapDelete(cache, query) ==
  IF keyIndex(cache, query) = 0 THEN cache ELSE RemoveAt(cache, keyIndex(cache, query))

\* cache.set(query, value)
mapSet(cache, query, value) ==
  IF keyIndex(cache, query) = 0 THEN Append(cache, value)
  ELSE [cache EXCEPT ![keyIndex(cache, query)] = value]

\* `if (oldest)`: the key is undefined when the Map is empty; of the strings
\* the empty one is falsy.
truthy(key) == key \notin {"undefined", ""}

\* evictOldest()
evictOldest(c) ==
  IF Len(c.cache) >= c.maxSize
  THEN LET oldest == IF c.cache = <<>> THEN "undefined" ELSE c.cache[1].query
       IN IF truthy(oldest) THEN [c EXCEPT !.cache = mapDelete(c.cache, oldest)]
          ELSE c
  ELSE c

expiredAtDeadline(result, now) == now >= result.timestamp + result.ttl

\* Date.now() > result.timestamp + result.ttl
expired(result, now) == now > result.timestamp + result.ttl

NoResult == [query |-> "undefined", tools |-> 0, timestamp |-> 0, ttl |-> 0]

\* createQueryCache(maxSize)
createQueryCache(maxSize) ==
  [maxSize |-> maxSize, cache |-> <<>>, hits |-> 0, misses |-> 0]

\* get(query) at the time now: the closure after the call and what it returns
\* (found = FALSE for undefined).
cacheGet(c, query, now) ==
  LET i == keyIndex(c.cache, query)
  IN IF i = 0
     THEN [c |-> [c EXCEPT !.misses = @ + 1], found |-> FALSE, result |-> NoResult]
     ELSE IF expired(c.cache[i], now)
     THEN [c |-> [c EXCEPT !.cache = mapDelete(c.cache, query), !.misses = @ + 1],
           found |-> FALSE, result |-> NoResult]
     ELSE [c |-> [c EXCEPT !.cache = mapSet(mapDelete(c.cache, query), query, c.cache[i]),
                           !.hits = @ + 1],
           found |-> TRUE, result |-> c.cache[i]]

\* set(query, tools, ttl) at the time now; ttl = [some, v], DEFAULT_TTL when
\* the argument is undefined.
cacheSet(c, query, tools, ttl, now) ==
  LET evicted == evictOldest(c)
  IN [evicted EXCEPT
        !.cache = mapSet(evicted.cache, query,
                         [query |-> query, tools |-> tools, timestamp |-> now,
                          ttl |-> IF ttl.some THEN ttl.v ELSE DEFAULT_TTL])]

\* clear()
cacheClear(c) == [c EXCEPT !.cache = <<>>, !.hits = 0, !.misses = 0]

\* stats()
stats(c) == [size |-> Len(c.cache), hits |-> c.hits, misses |-> c.misses]

Queries == {"", "a", "b", "c"}

\* The query cache after createQueryCache(maxSize), at time 0, with the
\* history the properties are stated on: the number of calls made, the last
\* call with what it returned, and for each query the number of the call
\* that last inserted it or read it with a hit (0: not since it left).
NewQueryCache(maxSize) ==
  [c |-> createQueryCache(maxSize), now |-> 0, n |-> 0,
   last |-> [op |-> "none", query |-> "undefined", found |-> FALSE, result |-> NoResult],
   usedAt |-> [q \in Queries |-> 0]]

-----------------------------------------------------------------------------
(* Tool executors: the function createMcpExecutor returns                    *)
(* (src/src/tool-selection/ports.ts) and the execute function of a tool      *)
(* built by createAiSdkTool (src/src/integration/ai-sdk.ts).  Both await     *)
(* connectionManager.getClient(serverId), then client.callTool(...).  A      *)
(* thrown value is [instance, message]: instance tells an Error from any     *)
(* other value, message is error.message or String(error).  A joined text    *)
(* is kept as the sequence of the texts it joins with "\n".                  *)

NoFailure == [at |-> "none", instance |-> FALSE, message |-> "none"]

Thrown(at, instance, message) == [at |-> at, instance |-> instance, message |-> message]

NoToolResult == [isError |-> "undefined", structuredContent |-> "undefined", content |-> <<>>]

NoOutcome == [kind |-> "none", isError |-> "undefined", shape |-> "none", text |-> <<>>]

\* result.content.filter((c) => c.type === "text").map((c) => c.text)
RECURSIVE texts(_)
texts(content) ==
  IF content = <<>> THEN <<>>
  ELSE (IF Head(content).type = "text" THEN <<Head(content).text>> ELSE <<>>)
       \o texts(Tail(content))

\* The joined text is the empty string.
isEmptyString(joined) == joined = <<>> \/ joined = <<"">>

\* error instanceof Error ? error.message : String(error)
messageOf(error) == error.message

Returned(isError, shape, text) ==
  [kind |-> "returned", isError |-> isError, shape |-> shape, text |-> text]

Rethrown(error) ==
  [kind |-> "threw", isError |-> "undefined", shape |-> "error", text |-> <<messageOf(error)>>]

executorCatchRethrows(error) == Rethrown(error)

\* The catch block of the executor: the error becomes a result.
executorCatch(error) == Returned("true", "content", <<messageOf(error)>>)

\* The executor of createMcpExecutor once callTool has resolved with result.
executorReturn(result) ==
  IF result.isError = "true"
  THEN Returned("true", "content",
                IF isEmptyString(texts(result.content))
                THEN <<"Tool returned an error">> ELSE texts(result.content))
  ELSE IF result.structuredContent # "undefined"
  THEN IF result.structuredContent = "circular"
       THEN executorCatch(Thrown("stringify", TRUE, "Converting circular structure to JSON"))
       ELSE Returned("false", "content", <<"json">>)
  ELSE Returned("false", "content",
                IF isEmptyString(texts(result.content)) THEN <<"">>
                ELSE texts(result.content))

\* The catch block of execute: console.error, then `throw error`.
aiSdkCatch(error) == Rethrown(error)

\* JSON.parse(textContent) succeeds.
isJson(joined) == joined = <<"{}">>

\* execute of createAiSdkTool once callTool has resolved with result.
\* What it returns is the structured content, the parsed text, the text or
\* the result itself; only the last carries the result's isError.
aiSdkReturn(result) ==
  IF result.structuredContent # "undefined"
  THEN Returned("undefined", "structuredContent", <<>>)
  ELSE IF ~isEmptyString(texts(result.content))
  THEN IF isJson(texts(result.content))
       THEN Returned("undefined", "parsed", texts(result.content))
       ELSE Returned("undefined", "string", texts(result.content))
  ELSE Returned(result.isError, "result", <<>>)

\* No tool call has been made.
NotExecuting ==
  [pc |-> "idle", fn |-> "none", serverId |-> "none", failure |-> NoFailure,
   result |-> NoToolResult, outcome |-> NoOutcome]

-----------------------------------------------------------------------------
(* The workflow executor (src/src/registry/config-parser.ts,                 *)
(* createWorkflowExecutor): one call of execute(workflow, input, options).   *)
(* Of a step the model keeps its place in workflow.steps (its id), its       *)
(* condition ("undefined", or a function that returns true, or one that      *)
(* returns false) and retry.maxAttempts ([some, v]).  What                   *)
(* toolExecutor.execute settles with is "okData" (success, with data), "ok"  *)
(* (success, no data), "failed" (success false, with an error),              *)
(* "failedSilent" (success false, the optional error field left out) or      *)
(* "threw" (the promise rejects).  inputMapping and the inputs given to a    *)
(* tool are left out: no result depends on them.                             *)

\* result.success
success(outcome) == outcome \in {"okData", "ok"}

\* result.error
errorOf(outcome) == IF outcome = "failed" THEN "error" ELSE "undefined"

\* `step.retry?.maxAttempts ?? 1`
maxAttemptsOf(step) == IF step.retry.some THEN step.retry.v ELSE 1

\* `if (step.condition && !step.condition(context))` does not skip the step.
passes(step) == step.condition \in {"undefined", "true"}

NoWorkflowResult ==
  [success |-> FALSE, stepResults |-> <<>>, data |-> {}, error |-> "undefined"]

\* No execute call has been made.
NotStarted ==
  [pc |-> "idle", mode |-> "none", steps |-> <<>>, aborted |-> FALSE, cur |-> 0,
   attempts |-> <<>>, log |-> <<>>, settled |-> <<>>, stepResults |-> <<>>,
   data |-> {}, lastError |-> "undefined", result |-> NoWorkflowResult]

\* The closure of execute when it starts: context, stepResults, lastError.
started(workflow, aborted) ==
  [NotStarted EXCEPT
     !.mode = workflow.mode, !.steps = workflow.steps, !.aborted = aborted,
     !.attempts = [i \in DOMAIN workflow.steps |-> 0],
     !.log = [i \in DOMAIN workflow.steps |-> <<>>],
     !.settled = [i \in DOMAIN workflow.steps |-> "none"]]

\* `return { workflowId, success: !lastError, stepResults, data, duration, error }`
returns(w) ==
  [w EXCEPT !.pc = "done", !.cur = 0,
            !.result = [success |-> w.lastError = "undefined",
                        stepResults |-> w.stepResults, data |-> w.data,
                        error |-> w.lastError]]

\* context.stepResults.set, stepResults.push, and context.data when
\* result.data is there.
recorded(w, i, outcome) ==
  [w EXCEPT !.stepResults = Append(@, [step |-> i, outcome |-> outcome]),
            !.data = IF outcome = "okData" THEN @ \cup {i} ELSE @]

\* toolExecutor.execute is invoked for step i.
invoked(w, i) == [w EXCEPT !.attempts[i] = @ + 1]

\* The for loop of the sequential branch from the top of the iteration of
\* step i to its first await, or to the return: the abort check, the
\* condition, then the first attempt.
RECURSIVE sequentialFrom(_, _)
sequentialFrom(w, i) ==
  IF i > Len(w.steps) THEN returns(w)
  ELSE IF w.aborted THEN returns([w EXCEPT !.lastError = "Workflow aborted"])
  ELSE IF ~passes(w.steps[i]) THEN sequentialFrom(w, i + 1)
  ELSE IF 0 < maxAttemptsOf(w.steps[i])
       THEN [invoked(w, i) EXCEPT !.pc = "attempt", !.cur = i]
       ELSE sequentialFrom(w, i + 1)

\* The sequential branch after the attempt of step i settled with a result:
\* the while loop goes round (the backoff is awaited), or the result is
\* recorded and the loop breaks or goes on.
sequentialAfter(w, i, outcome) ==
  LET logged == [w EXCEPT !.log[i] = Append(@, outcome)]
  IN IF logged.attempts[i] < maxAttemptsOf(w.steps[i]) /\ ~success(outcome)
     THEN [logged EXCEPT !.pc = "backoff"]
     ELSE IF ~success(outcome)
          THEN returns([recorded(logged, i, outcome) EXCEPT !.lastError = errorOf(outcome)])
          ELSE sequentialFrom(recorded(logged, i, outcome), i + 1)

\* `catch (error) { lastError = error instanceof Error ? error : new Error(...) }`
caught(w) == returns([w EXCEPT !.lastError = "error"])

\* The parallel branch up to `await Promise.all(promises)`: every step whose
\* condition passes is invoked, in order; the others give null.
RECURSIVE parallelInvoke(_, _)
parallelInvoke(w, i) ==
  IF i > Len(w.steps) THEN [w EXCEPT !.pc = "all"]
  ELSE IF passes(w.steps[i])
       THEN parallelInvoke([invoked(w, i) EXCEPT !.settled[i] = "pending"], i + 1)
       ELSE parallelInvoke([w EXCEPT !.settled[i] = "null"], i + 1)

\* The loop over the results of Promise.all, from index i.
RECURSIVE parallelCollect(_, _)
parallelCollect(w, i) ==
  IF i > Len(w.steps) THEN returns(w)
  ELSE IF w.settled[i] = "null" THEN parallelCollect(w, i + 1)
  ELSE LET outcome == w.settled[i]
           kept == recorded(w, i, outcome)
       IN parallelCollect(
            IF ~success(outcome) /\ w.lastError = "undefined"
            THEN [kept EXCEPT !.lastError = errorOf(outcome)] ELSE kept,
            i + 1)

\* Promise.all resolves once no promise is pending.
allSettled(w) == \A i \in DOMAIN w.steps : w.settled[i] # "pending"

\* execute up to its first await: the branch of workflow.mode; a mode that is
\* neither "sequential" nor "parallel" has no branch.
execute(workflow, aborted) ==
  LET w == started(workflow, aborted)
  IN IF workflow.mode = "sequential" THEN sequentialFrom(w, 1)
     ELSE IF workflow.mode = "parallel"
          THEN LET p == parallelInvoke(w, 1)
               IN IF allSettled(p) THEN parallelCollect(p, 1) ELSE p
          ELSE returns(w)

-----------------------------------------------------------------------------
(* The tool dependency graph (src/src/registry/config-parser.ts,             *)
(* createToolDependencyGraph).  The Map dependencies is a sequence of        *)
(* [tool, deps] in key order, a Set the sequence of its members in insertion *)
(* order.                                                                    *)

\* set.add(e)
setAdd(set, e) == IF \E i \in DOMAIN set : set[i] = e THEN set ELSE Append(set, e)

\* The place of the key in the Map, 0 if the Map has no such key.
toolIndex(dependencies, toolName) ==
  IF \E i \in DOMAIN dependencies : dependencies[i].tool = toolName
  THEN CHOOSE i \in DOMAIN dependencies : dependencies[i].tool = toolName
  ELSE 0

\* addDependency(toolName, dependsOn)
addDependency(dependencies, toolName, dependsOn) ==
  LET made == IF toolIndex(dependencies, toolName) = 0
              THEN Append(dependencies, [tool |-> toolName, deps |-> <<>>])
              ELSE dependencies
  IN [made EXCEPT ![toolIndex(made, toolName)].deps = setAdd(@, dependsOn)]

\* `dependencies.get(toolName) ?? new Set()`; getDependencies(toolName)
getDependencies(dependencies, toolName) ==
  IF toolIndex(dependencies, toolName) = 0 THEN <<>>
  ELSE dependencies[toolIndex(dependencies, toolName)].deps

RECURSIVE addEach(_, _)
addEach(all, transitive) ==
  IF transitive = <<>> THEN all
  ELSE addEach(setAdd(all, Head(transitive)), Tail(transitive))

addNone(all, transitive) == all

\* `for (const transitive of getAllDeps(dep, visited)) all.add(transitive)`
addTransitive(all, transitive) == addEach(all, transitive)

\* getAllDeps(toolName, visited): what it returns (all) and the visited set,
\* which the calls share, after it.  overDeps is its loop over direct from
\* the dependency at index i.
RECURSIVE getAllDeps(_, _, _)
RECURSIVE overDeps(_, _, _, _, _)
getAllDeps(dependencies, toolName, visited) ==
  IF toolName \in visited THEN [all |-> <<>>, visited |-> visited]
  ELSE LET direct == getDependencies(dependencies, toolName)
       IN overDeps(dependencies, direct, 1, direct, visited \cup {toolName})

overDeps(dependencies, direct, i, all, visited) ==
  IF i > Len(direct) THEN [all |-> all, visited |-> visited]
  ELSE LET inner == getAllDeps(dependencies, direct[i], visited)
       IN overDeps(dependencies, direct, i + 1, addTransitive(all, inner.all),
                   inner.visited)

\* getAllDependencies(toolName)
getAllDependencies(dependencies, toolName) == getAllDeps(dependencies, toolName, {}).all

\* createToolDependencyGraph(), with the last getAllDependencies call made.
NewGraph ==
  [dependencies |-> <<>>, edges |-> 0,
   last |-> [op |-> "none", tool |-> "none", result |-> <<>>]]

-----------------------------------------------------------------------------
(* Initial state: createMcpRegistry with a configuration that lists every    *)
(* server of ServerIds, then createConnectionManager(registry).              *)

ManagerInit ==
  /\ states = [id \in ServerIds |-> createServerState]
  /\ clients = [id \in ServerIds |-> 0]
  /\ pendingConnections = [id \in ServerIds |-> 0]
  /\ conns = <<>>
  /\ attempts = <<>>
  /\ discs = <<>>
  /\ dall = IdleAll
  /\ healthCheckInterval = FALSE
  /\ healthCheckInFlight = FALSE
  /\ ticks = <<>>
  /\ hist = [events |-> 0, skips |-> 0,
             timedOut |-> [id \in ServerIds |-> FALSE]]
  /\ servers = [id \in ServerIds |-> createServerConfig(TRUE)]
  /\ caches = [id \in ServerIds |-> NoCache]
  /\ refreshes = <<>>

Init ==
  /\ ManagerInit
  /\ registry = createMcpRegistry(DefaultDoc(IdOrder))
  /\ called = NotCalled
  /\ selection = NotSelected
  /\ qcache = NewQueryCache(DEFAULT_MAX_SIZE)
  /\ exec = NotExecuting
  /\ wf = NotStarted
  /\ graph = NewGraph

-----------------------------------------------------------------------------
(* History bookkeeping (no effect on the program state) *)

\* A getClient(id) call arrives; j is the attempt whose promise it returns
\* (0 when it returns something else).  For every connect attempt of id that
\* is in flight: joined counts the calls that got its promise, missed the
\* calls that did not although no connection of id reported connected.
NoteCall(atts, id, j) ==
  [k \in DOMAIN atts |->
    IF atts[k].id # id THEN atts[k]
    ELSE [atts[k] EXCEPT
           !.cancel = IF @ \in {"called", "done"} THEN "void" ELSE @,
           !.joined = IF k = j /\ atts[k].pc = "connect" THEN @ + 1 ELSE @,
           !.missed = IF k # j /\ atts[k].pc = "connect" /\ ~isConnected(id)
                      THEN @ + 1 ELSE @]]

\* client.connect() is invoked for id: counted by every in-flight attempt of id.
NoteConnect(atts, id) ==
  [k \in DOMAIN atts |->
    IF atts[k].id = id /\ atts[k].pc = "connect"
    THEN [atts[k] EXCEPT !.invoked = @ + 1] ELSE atts[k]]

\* A disconnect or a health-check tick touches the servers ids.
NoteDisturbed(atts, ids) ==
  [k \in DOMAIN atts |->
    IF atts[k].id \in ids /\ atts[k].pc # "done"
    THEN [atts[k] EXCEPT !.clean = FALSE] ELSE atts[k]]

\* A getClient(id) call arrives while a disconnectAll covering id is pending.
NoteAllCall(id) ==
  IF dall.st = "pending" /\ id \in dall.ids THEN [dall EXCEPT !.clean = FALSE] ELSE dall

\* A disconnect(id) is interleaved with a connect attempt of id that starts
\* now: it is still running, or it was called during an attempt of id that has
\* not finished.
StartsCut(id) ==
  \/ \E k \in AliveAttempts(id) : attempts[k].cut
  \/ \E d \in DOMAIN discs : discs[d].id = id

\* Nothing is interleaved with a connect attempt of id that starts now.
StartsClean(id) ==
  /\ \A k \in AliveAttempts(id) : attempts[k].clean
  /\ \A d \in DOMAIN discs : discs[d].id # id
  /\ \A t \in DOMAIN ticks : ~TickHolds(t, id)

-----------------------------------------------------------------------------
(* getClient(serverId) *)

pendingOfNone(id) == 0

\* pendingConnections.get(serverId)
pendingOf(id) == pendingConnections[id]

\* `if (existing?.connected) return existing;`
GetClientExisting(id) ==
  /\ hist.events < MaxEvents
  /\ isConnected(id)
  /\ hist' = [hist EXCEPT !.events = @ + 1]
  /\ attempts' = NoteCall(attempts, id, 0)
  /\ dall' = NoteAllCall(id)
  /\ UNCHANGED <<states, clients, pendingConnections, conns, discs,
                 healthCheckInterval, healthCheckInFlight, ticks>>
  /\ UNCHANGED <<servers, caches, refreshes>>
  /\ UNCHANGED besidesManager

\* `if (pending) return pending;`
GetClientPending(id) ==
  /\ hist.events < MaxEvents
  /\ ~isConnected(id)
  /\ pendingOf(id) # 0
  /\ hist' = [hist EXCEPT !.events = @ + 1]
  /\ attempts' = NoteCall(attempts, id, pendingOf(id))
  /\ dall' = NoteAllCall(id)
  /\ UNCHANGED <<states, clients, pendingConnections, conns, discs,
                 healthCheckInterval, healthCheckInFlight, ticks>>
  /\ UNCHANGED <<servers, caches, refreshes>>
  /\ UNCHANGED besidesManager

\* `throw new Error("Server ... not found in registry")`
GetClientNotFound(id) ==
  /\ hist.events < MaxEvents
  /\ ~isConnected(id)
  /\ pendingOf(id) = 0
  /\ ~hasServer(id)
  /\ hist' = [hist EXCEPT !.events = @ + 1]
  /\ attempts' = NoteCall(attempts, id, 0)
  /\ dall' = NoteAllCall(id)
  /\ UNCHANGED <<states, clients, pendingConnections, conns, discs,
                 healthCheckInterval, healthCheckInFlight, ticks>>
  /\ UNCHANGED <<servers, caches, refreshes>>
  /\ UNCHANGED besidesManager

\* `throw new Error("Server ... is disabled")`
GetClientDisabled(id) ==
  /\ hist.events < MaxEvents
  /\ ~isConnected(id)
  /\ pendingOf(id) = 0
  /\ hasServer(id)
  /\ ~servers[id].enabled
  /\ hist' = [hist EXCEPT !.events = @ + 1]
  /\ attempts' = NoteCall(attempts, id, 0)
  /\ dall' = NoteAllCall(id)
  /\ UNCHANGED <<states, clients, pendingConnections, conns, discs,
                 healthCheckInterval, healthCheckInFlight, ticks>>
  /\ UNCHANGED <<servers, caches, refreshes>>
  /\ UNCHANGED besidesManager

\* The connectPromise closure up to `await withTimeout(client.connect(), ...)`,
\* then pendingConnections.set(serverId, connectPromise).
GetClientConnect(id) ==
  /\ hist.events < MaxEvents
  /\ ~isConnected(id)
  /\ pendingOf(id) = 0
  /\ hasServer(id)
  /\ servers[id].enabled
  /\ LET reused == clients[id]
         o == IF reused # 0 THEN reused ELSE Len(conns) + 1
         made == IF reused # 0 THEN conns ELSE Append(conns, createMcpClient(id))
         a == [id |-> id, obj |-> o, pc |-> "connect", cancel |-> "no",
               clean |-> StartsClean(id), joined |-> 1, missed |-> 0, invoked |-> 1,
               failed |-> FALSE, cut |-> StartsCut(id)]
     IN /\ conns' = connectInvoked(made, o)
        /\ clients' = [clients EXCEPT ![id] = o]
        /\ states' = updateState(states, id, "connecting", "none")
        /\ attempts' = Append(NoteConnect(NoteCall(attempts, id, 0), id), a)
        /\ pendingConnections' = [pendingConnections EXCEPT ![id] = Len(attempts) + 1]
  /\ hist' = [hist EXCEPT !.events = @ + 1]
  /\ dall' = NoteAllCall(id)
  /\ UNCHANGED <<discs, healthCheckInterval, healthCheckInFlight, ticks>>
  /\ UNCHANGED <<servers, caches, refreshes>>
  /\ UNCHANGED besidesManager

\* A connect attempt of id succeeded in time: an earlier timeout is superseded.
NoteConnected(h, id) == [h EXCEPT !.timedOut[id] = FALSE]

\* A connect attempt of id timed out while client o did not report connected.
NoteTimedOut(h, id, o) ==
  IF conns[o].isConnected THEN h ELSE [h EXCEPT !.timedOut[id] = TRUE]

\* client.connect() resolved in time: `updateState(serverId, "connected")`,
\* then refreshToolsForClient is awaited.
AttemptConnectOk(k) ==
  /\ ~MicrotasksPending
  /\ attempts[k].pc = "connect"
  /\ conns' = connectResolved(conns, attempts[k].obj)
  /\ states' = updateState(states, attempts[k].id, "connected", "none")
  /\ attempts' = [attempts EXCEPT ![k].pc = "refresh"]
  /\ hist' = NoteConnected(hist, attempts[k].id)
  /\ UNCHANGED <<clients, pendingConnections, discs, dall,
                 healthCheckInterval, healthCheckInFlight, ticks>>
  /\ UNCHANGED <<servers, caches, refreshes>>
  /\ UNCHANGED besidesManager

connectFailedKeepsClient(k, message) ==
  /\ states' = updateState(states, attempts[k].id, "error", message)
  /\ clients' = clients
  /\ attempts' = [attempts EXCEPT ![k].pc = "finally", ![k].failed = TRUE]

\* The catch block of connectPromise: status "error", clients.delete, rethrow
\* (connectPromise rejects, and with it every call that returned it).
connectFailed(k, message) ==
  /\ states' = updateState(states, attempts[k].id, "error", message)
  /\ clients' = [clients EXCEPT ![attempts[k].id] = 0]
  /\ attempts' = [attempts EXCEPT ![k].pc = "finally", ![k].failed = TRUE]

\* client.connect() rejected in time.
AttemptConnectFail(k) ==
  /\ ~MicrotasksPending
  /\ attempts[k].pc = "connect"
  /\ connectFailed(k, "connect failed")
  /\ UNCHANGED <<pendingConnections, conns, discs, dall,
                 healthCheckInterval, healthCheckInFlight, ticks, hist>>
  /\ UNCHANGED <<servers, caches, refreshes>>
  /\ UNCHANGED besidesManager

\* The timer of withTimeout fired first; client.connect() keeps running.
AttemptConnectTimeout(k) ==
  /\ ~MicrotasksPending
  /\ attempts[k].pc = "connect"
  /\ connectFailed(k, "Connection timed out")
  /\ conns' = [conns EXCEPT ![attempts[k].obj].stale = @ + 1]
  /\ hist' = NoteTimedOut(hist, attempts[k].id, attempts[k].obj)
  /\ UNCHANGED <<pendingConnections, discs, dall,
                 healthCheckInterval, healthCheckInFlight, ticks>>
  /\ UNCHANGED <<servers, caches, refreshes>>
  /\ UNCHANGED besidesManager

\* `finally { pendingConnections.delete(serverId); }` of the call that started it.
AttemptFinally(k) ==
  /\ attempts[k].pc = "finally"
  /\ pendingConnections' = [pendingConnections EXCEPT ![attempts[k].id] = 0]
  /\ attempts' = [attempts EXCEPT ![k] = DoneAttempt]
  /\ UNCHANGED <<states, clients, conns, discs, dall,
                 healthCheckInterval, healthCheckInFlight, ticks, hist>>
  /\ UNCHANGED <<servers, caches, refreshes>>
  /\ UNCHANGED besidesManager

lateResolveSetsConnected(st, id) == updateState(st, id, "connected", "none")

\* withTimeout after its timer rejected: the promise is settled, so the late
\* resolve(value) / reject(error) reaches no continuation of the manager.
lateResolve(st, id) == st

\* A connect() whose wrapper timed out settles at last.
LateConnect(o, ok) ==
  /\ ~MicrotasksPending
  /\ conns[o].stale > 0
  /\ conns' = IF ok THEN connectResolved([conns EXCEPT ![o].stale = @ - 1], o)
              ELSE [conns EXCEPT ![o].stale = @ - 1]
  /\ states' = IF ok THEN lateResolve(states, conns[o].id) ELSE states
  /\ UNCHANGED <<clients, pendingConnections, attempts, discs, dall,
                 healthCheckInterval, healthCheckInFlight, ticks, hist>>
  /\ UNCHANGED <<servers, caches, refreshes>>
  /\ UNCHANGED besidesManager

-----------------------------------------------------------------------------
(* disconnect(serverId), disconnectAll(), registry.remove / registry.add *)

InFlight(id) == {k \in DOMAIN attempts : attempts[k].id = id /\ attempts[k].pc = "connect"}

\* manager.disconnect(id) up to `await client.disconnect()`, for each id of S in
\* the order of the calls: the suspended calls.  A call that finds no client
\* returns at once and leaves no task.  cancels is history: the connect
\* attempts of id in flight at the call.
disconnectTasks(S, group) ==
  LET task(id) == [id |-> id, obj |-> clients[id],
                   pc |-> IF closeNeeded(conns[clients[id]]) THEN "closing" ELSE "noop",
                   group |-> group, cancels |-> InFlight(id)]
      f[i \in 0 .. Len(IdOrder)] ==
        IF i = 0 THEN <<>>
        ELSE IF IdOrder[i] \in S /\ clients[IdOrder[i]] # 0
             THEN Append(f[i - 1], task(IdOrder[i]))
             ELSE f[i - 1]
  IN f[Len(IdOrder)]

\* History: disconnect(id) was called for the ids of S.
NoteDisconnect(atts, S) ==
  [k \in DOMAIN atts |->
    IF atts[k].id \in S /\ atts[k].pc # "done"
    THEN [atts[k] EXCEPT
           !.clean = FALSE,
           !.cut = TRUE,
           !.cancel = IF atts[k].pc = "connect" /\ @ = "no"
                      THEN (IF clients[atts[k].id] # 0 THEN "called" ELSE "done")
                      ELSE @]
    ELSE atts[k]]

\* The synchronous part of manager.disconnect for every id of S.
disconnectCalls(S, group) ==
  /\ pendingConnections' = [id \in ServerIds |-> IF id \in S THEN 0 ELSE pendingConnections[id]]
  /\ discs' = discs \o disconnectTasks(S, group)
  /\ attempts' = NoteDisconnect(attempts, S)

Disconnect(id) ==
  /\ hist.events < MaxEvents
  /\ disconnectCalls({id}, "single")
  /\ hist' = [hist EXCEPT !.events = @ + 1]
  /\ UNCHANGED <<states, clients, conns, dall,
                 healthCheckInterval, healthCheckInFlight, ticks>>
  /\ UNCHANGED <<servers, caches, refreshes>>
  /\ UNCHANGED besidesManager

\* disconnectAll: disconnect for Array.from(clients.keys()), then Promise.all.
DisconnectAll ==
  /\ hist.events < MaxEvents
  /\ dall.st # "pending"
  /\ LET ids == {id \in ServerIds : clients[id] # 0}
     IN /\ disconnectCalls(ids, "all")
        /\ dall' = [st |-> IF ids = {} THEN "resolved" ELSE "pending",
                    ids |-> ids, clean |-> TRUE]
  /\ hist' = [hist EXCEPT !.events = @ + 1]
  /\ UNCHANGED <<states, clients, conns,
                 healthCheckInterval, healthCheckInFlight, ticks>>
  /\ UNCHANGED <<servers, caches, refreshes>>
  /\ UNCHANGED besidesManager

\* registry.remove: deletes config and state, emits server:removed; the
\* manager's handler calls manager.disconnect(serverId).
Remove(id) ==
  /\ hist.events < MaxEvents
  /\ hasServer(id)
  /\ states' = [states EXCEPT ![id] = Absent]
  /\ disconnectCalls({id}, "removed")
  /\ hist' = [hist EXCEPT !.events = @ + 1]
  /\ servers' = [servers EXCEPT ![id] = createServerConfig(TRUE)]
  /\ caches' = [caches EXCEPT ![id] = NoCache]
  /\ UNCHANGED <<clients, conns, dall,
                 healthCheckInterval, healthCheckInFlight, ticks, refreshes>>
  /\ UNCHANGED besidesManager

\* registry.add of an id that is not registered.
Add(id) ==
  /\ hist.events < MaxEvents
  /\ ~hasServer(id)
  /\ states' = [states EXCEPT ![id] = createServerState]
  /\ hist' = [hist EXCEPT !.events = @ + 1]
  /\ \E enabled \in BOOLEAN : servers' = [servers EXCEPT ![id] = createServerConfig(enabled)]
  /\ caches' = [caches EXCEPT ![id] = NoCache]
  /\ UNCHANGED <<clients, pendingConnections, conns, attempts, discs, dall,
                 healthCheckInterval, healthCheckInFlight, ticks, refreshes>>
  /\ UNCHANGED besidesManager

\* registry.update(serverId, {enabled}): the stored config is replaced; the
\* server:updated event has no handler in the manager.
Update(id, enabled) ==
  /\ hist.events < MaxEvents
  /\ hasServer(id)
  /\ servers' = [servers EXCEPT ![id] = [@ EXCEPT !.enabled = enabled]]
  /\ hist' = [hist EXCEPT !.events = @ + 1]
  /\ UNCHANGED <<states, clients, pendingConnections, conns, attempts, discs, dall,
                 healthCheckInterval, healthCheckInFlight, ticks, caches, refreshes>>
  /\ UNCHANGED besidesManager

\* Promise.all of disconnectAll: resolved once its last disconnect call returns.
allAfter(d) ==
  IF discs[d].group = "all" /\ dall.st = "pending" /\
     (\A e \in DOMAIN discs : e # d => discs[e].group # "all")
  THEN [dall EXCEPT !.st = "resolved"] ELSE dall

\* History: the disconnect call d returned.
NoteDisconnected(atts, d) ==
  [k \in DOMAIN atts |->
    IF k \in discs[d].cancels /\ atts[k].cancel = "called"
    THEN [atts[k] EXCEPT !.cancel = "done"] ELSE atts[k]]

\* manager.disconnect after `await client.disconnect()`:
\* clients.delete(serverId); updateState(serverId, "disconnected").
disconnectReturns(d) ==
  /\ clients' = [clients EXCEPT ![discs[d].id] = 0]
  /\ states' = updateState(states, discs[d].id, "disconnected", "none")
  /\ discs' = RemoveAt(discs, d)
  /\ attempts' = NoteDisconnected(attempts, d)
  /\ dall' = allAfter(d)

\* client.disconnect() had nothing to close.
DisconnectNoop(d) ==
  /\ discs[d].pc = "noop"
  /\ disconnectReturns(d)
  /\ UNCHANGED <<pendingConnections, conns,
                 healthCheckInterval, healthCheckInFlight, ticks, hist>>
  /\ UNCHANGED <<servers, caches, refreshes>>
  /\ UNCHANGED besidesManager

\* sdkClient.close() resolved.
DisconnectClosed(d) ==
  /\ ~MicrotasksPending
  /\ discs[d].pc = "closing"
  /\ conns' = closeResolved(conns, discs[d].obj)
  /\ disconnectReturns(d)
  /\ UNCHANGED <<pendingConnections,
                 healthCheckInterval, healthCheckInFlight, ticks, hist>>
  /\ UNCHANGED <<servers, caches, refreshes>>
  /\ UNCHANGED besidesManager

\* sdkClient.close() threw: `catch (error) { console.error(...) }`.
DisconnectCloseFailed(d) ==
  /\ ~MicrotasksPending
  /\ discs[d].pc = "closing"
  /\ conns' = [conns EXCEPT ![discs[d].obj].closeFailed = TRUE]
  /\ disconnectReturns(d)
  /\ UNCHANGED <<pendingConnections,
                 healthCheckInterval, healthCheckInFlight, ticks, hist>>
  /\ UNCHANGED <<servers, caches, refreshes>>
  /\ UNCHANGED besidesManager

-----------------------------------------------------------------------------
(* Health-check loop *)

startHealthChecks ==
  /\ healthCheckInterval' = TRUE
  /\ UNCHANGED <<states, clients, pendingConnections, conns, attempts, discs, dall,
                 healthCheckInFlight, ticks, hist>>
  /\ UNCHANGED <<servers, caches, refreshes>>
  /\ UNCHANGED besidesManager

stopHealthChecks ==
  /\ healthCheckInterval' = FALSE
  /\ UNCHANGED <<states, clients, pendingConnections, conns, attempts, discs, dall,
                 healthCheckInFlight, ticks, hist>>
  /\ UNCHANGED <<servers, caches, refreshes>>
  /\ UNCHANGED besidesManager

tickGuardOff == FALSE

\* `if (healthCheckInFlight) return;`
tickGuard == healthCheckInFlight

\* Array.from(clients.entries())
entriesOf == {[id |-> id, obj |-> clients[id]] : id \in {i \in ServerIds : clients[i] # 0}}

\* The for loop of the tick from the top of an iteration to its next await:
\* the loop ends, or an entry is taken (any order of the snapshot) and, as
\* client.connected says, listTools() or connect() is invoked.
tickLoop(tk, t, baseTicks, baseAtts, baseConns) ==
  IF tk.todo = {}
  THEN /\ ticks' = [baseTicks EXCEPT ![t] = [tk EXCEPT !.cur = NoEntry, !.pc = "finally"]]
       /\ attempts' = baseAtts
       /\ conns' = baseConns
  ELSE \E e \in tk.todo :
         IF baseConns[e.obj].isConnected
         THEN /\ ticks' = [baseTicks EXCEPT ![t] =
                             [tk EXCEPT !.todo = @ \ {e}, !.cur = e, !.pc = "probe"]]
              /\ attempts' = baseAtts
              /\ conns' = baseConns
         ELSE /\ ticks' = [baseTicks EXCEPT ![t] =
                             [tk EXCEPT !.todo = @ \ {e}, !.cur = e, !.pc = "reconnect",
                                        !.reconn = @ \cup {e.id}]]
              /\ attempts' = NoteConnect(baseAtts, e.id)
              /\ conns' = connectInvoked(baseConns, e.obj)

\* The interval timer fires.
TimerFire ==
  /\ ~MicrotasksPending
  /\ healthCheckInterval
  /\ hist.events < MaxEvents
  /\ IF tickGuard
     THEN /\ hist' = [hist EXCEPT !.events = @ + 1, !.skips = @ + 1]
          /\ UNCHANGED <<healthCheckInFlight, ticks, attempts, conns>>
     ELSE /\ hist' = [hist EXCEPT !.events = @ + 1]
          /\ healthCheckInFlight' = TRUE
          /\ LET tk == [todo |-> entriesOf, cur |-> NoEntry, pc |-> "start",
                        failed |-> {}, reconn |-> {}]
             IN tickLoop(tk, Len(ticks) + 1, Append(ticks, tk),
                         NoteDisturbed(attempts, {e.id : e \in entriesOf}), conns)
  /\ UNCHANGED <<states, clients, pendingConnections, discs, dall, healthCheckInterval>>
  /\ UNCHANGED <<servers, caches, refreshes>>
  /\ UNCHANGED besidesManager

\* Reconnect branch: client.connect() resolved in time.
TickReconnectOk(t) ==
  /\ ~MicrotasksPending
  /\ ticks[t].pc = "reconnect"
  /\ conns' = connectResolved(conns, ticks[t].cur.obj)
  /\ states' = updateState(states, ticks[t].cur.id, "connected", "none")
  /\ ticks' = [ticks EXCEPT ![t].pc = "refresh"]
  /\ hist' = NoteConnected(hist, ticks[t].cur.id)
  /\ UNCHANGED <<clients, pendingConnections, attempts, discs, dall,
                 healthCheckInterval, healthCheckInFlight>>
  /\ UNCHANGED <<servers, caches, refreshes>>
  /\ UNCHANGED besidesManager

failureEscapes(tk) == [tk EXCEPT !.todo = {}]

\* Reconnect branch, `catch (error) { updateState(serverId, "error", ...) }`:
\* the error is consumed and the loop keeps the rest of its snapshot.
failureCaught(tk) == tk

\* Reconnect branch: client.connect() rejected in time.
TickReconnectFail(t) ==
  /\ ~MicrotasksPending
  /\ ticks[t].pc = "reconnect"
  /\ states' = updateState(states, ticks[t].cur.id, "error", "connect failed")
  /\ tickLoop(failureCaught(ticks[t]), t, ticks, attempts, conns)
  /\ UNCHANGED <<clients, pendingConnections, discs, dall,
                 healthCheckInterval, healthCheckInFlight, hist>>
  /\ UNCHANGED <<servers, caches, refreshes>>
  /\ UNCHANGED besidesManager

\* Reconnect branch: the timer of withTimeout fired first.
TickReconnectTimeout(t) ==
  /\ ~MicrotasksPending
  /\ ticks[t].pc = "reconnect"
  /\ states' = updateState(states, ticks[t].cur.id, "error",
                           "Health-check reconnect timed out")
  /\ tickLoop(failureCaught(ticks[t]), t, ticks, attempts,
              [conns EXCEPT ![ticks[t].cur.obj].stale = @ + 1])
  /\ hist' = NoteTimedOut(hist, ticks[t].cur.id, ticks[t].cur.obj)
  /\ UNCHANGED <<clients, pendingConnections, discs, dall,
                 healthCheckInterval, healthCheckInFlight>>
  /\ UNCHANGED <<servers, caches, refreshes>>
  /\ UNCHANGED besidesManager

\* Probe branch: listTools() resolved in time (the SDK client must be there).
TickProbeOk(t) ==
  /\ ~MicrotasksPending
  /\ ticks[t].pc = "probe"
  /\ conns[ticks[t].cur.obj].sdk
  /\ tickLoop(ticks[t], t, ticks, attempts, conns)
  /\ UNCHANGED <<states, clients, pendingConnections, discs, dall,
                 healthCheckInterval, healthCheckInFlight, hist>>
  /\ UNCHANGED <<servers, caches, refreshes>>
  /\ UNCHANGED besidesManager

probeFailureReconnects == "reconnect"

\* Probe branch, `catch { updateState(serverId, "disconnected"); }`: what the
\* tick does next.
onProbeFailure == "next"

\* Probe branch: listTools() rejected or timed out.
TickProbeFail(t) ==
  /\ ~MicrotasksPending
  /\ ticks[t].pc = "probe"
  /\ states' = updateState(states, ticks[t].cur.id, "disconnected", "none")
  /\ LET tk == [ticks[t] EXCEPT !.failed = @ \cup {ticks[t].cur.id}]
     IN IF onProbeFailure = "next"
        THEN tickLoop(tk, t, ticks, attempts, conns)
        ELSE /\ ticks' = [ticks EXCEPT ![t] =
                            [tk EXCEPT !.pc = "reconnect", !.reconn = @ \cup {tk.cur.id}]]
             /\ attempts' = NoteConnect(attempts, tk.cur.id)
             /\ conns' = connectInvoked(conns, tk.cur.obj)
  /\ UNCHANGED <<clients, pendingConnections, discs, dall,
                 healthCheckInterval, healthCheckInFlight, hist>>
  /\ UNCHANGED <<servers, caches, refreshes>>
  /\ UNCHANGED besidesManager

\* `.finally(() => { healthCheckInFlight = false; })`
TickFinally(t) ==
  /\ ticks[t].pc = "finally"
  /\ healthCheckInFlight' = FALSE
  /\ ticks' = [ticks EXCEPT ![t] = DoneTick]
  /\ UNCHANGED <<states, clients, pendingConnections, conns, attempts, discs, dall,
                 healthCheckInterval, hist>>
  /\ UNCHANGED <<servers, caches, refreshes>>
  /\ UNCHANGED besidesManager

-----------------------------------------------------------------------------
(* refreshToolsForClient(serverId, client) and manager.refreshTools *)

\* Where a refreshToolsForClient call is suspended: "refresh" at listTools,
\* "prompts" at listPrompts, "resources" at listResources.
RefreshStages == {"refresh", "prompts", "resources"}

\* The refreshToolsForClient calls in progress, by caller: the connectPromise
\* of a getClient, the reconnect branch of a tick, a refreshTools call.
Refreshing ==
  {<<"attempt", k>> : k \in {j \in DOMAIN attempts : attempts[j].pc \in RefreshStages}}
  \cup {<<"tick", t>> : t \in {u \in DOMAIN ticks : ticks[u].pc \in RefreshStages}}
  \cup {<<"call", c>> : c \in {b \in DOMAIN refreshes : refreshes[b].pc \in RefreshStages}}

\* The arguments of the call w and where it is suspended.
refreshOf(w) ==
  IF w[1] = "attempt"
  THEN [id |-> attempts[w[2]].id, obj |-> attempts[w[2]].obj, pc |-> attempts[w[2]].pc]
  ELSE IF w[1] = "tick"
       THEN [id |-> ticks[w[2]].cur.id, obj |-> ticks[w[2]].cur.obj, pc |-> ticks[w[2]].pc]
       ELSE refreshes[w[2]]

\* The call w goes on to its next await.
refreshMoves(w, pc) ==
  /\ attempts' = IF w[1] = "attempt" THEN [attempts EXCEPT ![w[2]].pc = pc] ELSE attempts
  /\ ticks' = IF w[1] = "tick" THEN [ticks EXCEPT ![w[2]].pc = pc] ELSE ticks
  /\ refreshes' = IF w[1] = "call" THEN [refreshes EXCEPT ![w[2]].pc = pc] ELSE refreshes
  /\ conns' = conns

\* The call w returns (it never throws) and its caller goes on: connectPromise
\* resolves with the client, the tick takes its next entry, refreshTools
\* resolves.
refreshReturns(w) ==
  IF w[1] = "attempt"
  THEN /\ attempts' = [attempts EXCEPT ![w[2]].pc = "finally"]
       /\ UNCHANGED <<ticks, refreshes, conns>>
  ELSE IF w[1] = "tick"
       THEN /\ tickLoop(ticks[w[2]], w[2], ticks, attempts, conns)
            /\ UNCHANGED refreshes
       ELSE /\ refreshes' = RemoveAt(refreshes, w[2])
            /\ UNCHANGED <<attempts, ticks, conns>>

\* client.listTools() and the like resolve only on a connected SDK client
\* (otherwise they throw "Client not connected").
canList(o) == conns[o].sdk /\ conns[o].isConnected

\* manager.refreshTools(serverId): `if (client?.connected)` it awaits
\* refreshToolsForClient; otherwise it returns at once, changing nothing.
RefreshTools(id) ==
  /\ hist.events < MaxEvents
  /\ isConnected(id)
  /\ refreshes' = Append(refreshes, [id |-> id, obj |-> clients[id], pc |-> "refresh"])
  /\ hist' = [hist EXCEPT !.events = @ + 1]
  /\ UNCHANGED <<states, clients, pendingConnections, conns, attempts, discs, dall,
                 healthCheckInterval, healthCheckInFlight, ticks, servers, caches>>
  /\ UNCHANGED besidesManager

\* What the outer catch of refreshToolsForClient does to the caches when
\* listTools() fails.
toolsFailureClears(c, id) == [c EXCEPT ![id] = NoCache]

toolsFailure(c, id) == c

\* What the catch after listPrompts() does to the caches.
promptsFailure(c, id) == c

\* listTools() resolved in time: registry.setTools, which throws into the
\* outer catch when the server has been removed; then listPrompts is awaited.
RefreshToolsOk(w, tools) ==
  /\ ~MicrotasksPending
  /\ refreshOf(w).pc = "refresh"
  /\ canList(refreshOf(w).obj)
  /\ IF hasServer(refreshOf(w).id)
     THEN /\ caches' = setTools(caches, refreshOf(w).id, tools)
          /\ refreshMoves(w, "prompts")
     ELSE /\ caches' = caches
          /\ refreshReturns(w)
  /\ UNCHANGED <<states, clients, pendingConnections, discs, dall,
                 healthCheckInterval, healthCheckInFlight, hist, servers>>
  /\ UNCHANGED besidesManager

\* listTools() rejected or timed out: `catch (error) { console.error(...) }`.
RefreshToolsFail(w) ==
  /\ ~MicrotasksPending
  /\ refreshOf(w).pc = "refresh"
  /\ caches' = toolsFailure(caches, refreshOf(w).id)
  /\ refreshReturns(w)
  /\ UNCHANGED <<states, clients, pendingConnections, discs, dall,
                 healthCheckInterval, healthCheckInFlight, hist, servers>>
  /\ UNCHANGED besidesManager

\* listPrompts() resolved in time: registry.setPrompts (its throw for a removed
\* server is swallowed by the inner catch); then listResources is awaited.
RefreshPromptsOk(w, prompts) ==
  /\ ~MicrotasksPending
  /\ refreshOf(w).pc = "prompts"
  /\ canList(refreshOf(w).obj)
  /\ caches' = IF hasServer(refreshOf(w).id)
               THEN setPrompts(caches, refreshOf(w).id, prompts) ELSE caches
  /\ refreshMoves(w, "resources")
  /\ UNCHANGED <<states, clients, pendingConnections, discs, dall,
                 healthCheckInterval, healthCheckInFlight, hist, servers>>
  /\ UNCHANGED besidesManager

\* listPrompts() rejected or timed out: `catch { }`.
RefreshPromptsFail(w) ==
  /\ ~MicrotasksPending
  /\ refreshOf(w).pc = "prompts"
  /\ caches' = promptsFailure(caches, refreshOf(w).id)
  /\ refreshMoves(w, "resources")
  /\ UNCHANGED <<states, clients, pendingConnections, discs, dall,
                 healthCheckInterval, healthCheckInFlight, hist, servers>>
  /\ UNCHANGED besidesManager

\* listResources() resolved in time: registry.setResources; the call returns.
RefreshResourcesOk(w, resources) ==
  /\ ~MicrotasksPending
  /\ refreshOf(w).pc = "resources"
  /\ canList(refreshOf(w).obj)
  /\ caches' = IF hasServer(refreshOf(w).id)
               THEN setResources(caches, refreshOf(w).id, resources) ELSE caches
  /\ refreshReturns(w)
  /\ UNCHANGED <<states, clients, pendingConnections, discs, dall,
                 healthCheckInterval, healthCheckInFlight, hist, servers>>
  /\ UNCHANGED besidesManager

\* listResources() rejected or timed out: `catch { }`; the call returns.
RefreshResourcesFail(w) ==
  /\ ~MicrotasksPending
  /\ refreshOf(w).pc = "resources"
  /\ refreshReturns(w)
  /\ UNCHANGED <<states, clients, pendingConnections, discs, dall,
                 healthCheckInterval, healthCheckInFlight, hist, servers, caches>>
  /\ UNCHANGED besidesManager

-----------------------------------------------------------------------------
(* The system *)

Next ==
  \/ \E id \in ServerIds : GetClientExisting(id)
  \/ \E id \in ServerIds : GetClientPending(id)
  \/ \E id \in ServerIds : GetClientNotFound(id)
  \/ \E id \in ServerIds : GetClientDisabled(id)
  \/ \E id \in ServerIds : GetClientConnect(id)
  \/ \E k \in DOMAIN attempts : AttemptConnectOk(k)
  \/ \E k \in DOMAIN attempts : AttemptConnectFail(k)
  \/ \E k \in DOMAIN attempts : AttemptConnectTimeout(k)
  \/ \E k \in DOMAIN attempts : AttemptFinally(k)
  \/ \E o \in DOMAIN conns : \E ok \in BOOLEAN : LateConnect(o, ok)
  \/ \E id \in ServerIds : Disconnect(id)
  \/ DisconnectAll
  \/ \E id \in ServerIds : Remove(id)
  \/ \E id \in ServerIds : Add(id)
  \/ \E id \in ServerIds : \E enabled \in BOOLEAN : Update(id, enabled)
  \/ \E d \in DOMAIN discs : DisconnectNoop(d)
  \/ \E d \in DOMAIN discs : DisconnectClosed(d)
  \/ \E d \in DOMAIN discs : DisconnectCloseFailed(d)
  \/ startHealthChecks
  \/ stopHealthChecks
  \/ TimerFire
  \/ \E t \in DOMAIN ticks : TickReconnectOk(t)
  \/ \E t \in DOMAIN ticks : TickReconnectFail(t)
  \/ \E t \in DOMAIN ticks : TickReconnectTimeout(t)
  \/ \E t \in DOMAIN ticks : TickProbeOk(t)
  \/ \E t \in DOMAIN ticks : TickProbeFail(t)
  \/ \E t \in DOMAIN ticks : TickFinally(t)
  \/ \E id \in ServerIds : RefreshTools(id)
  \/ \E w \in Refreshing : \E tools \in ToolLists : RefreshToolsOk(w, tools)
  \/ \E w \in Refreshing : RefreshToolsFail(w)
  \/ \E w \in Refreshing : \E prompts \in PromptLists : RefreshPromptsOk(w, prompts)
  \/ \E w \in Refreshing : RefreshPromptsFail(w)
  \/ \E w \in Refreshing : \E resources \in ResourceLists : RefreshResourcesOk(w, resources)
  \/ \E w \in Refreshing : RefreshResourcesFail(w)

Spec == Init /\ [][Next]_vars

-----------------------------------------------------------------------------
(* The health-check loop under fair scheduling.  The interval timer keeps    *)
(* firing after the application's calls are used up, so a behaviour holds    *)
(* any number of ticks; a finished tick's record is used again.  The         *)
(* application connects clients with getClient and starts the timer.  What   *)
(* the runtime guarantees is assumed and nothing else: a microtask that is   *)
(* ready runs, a timer that is set fires.  Nothing is assumed of a server:   *)
(* its connect(), listTools(), listPrompts() and listResources() may never   *)
(* settle.                                                                   *)

\* connect() invocations of one client left running after their timeout.
MaxStale == 1

withTimeoutOnConnect(call) == call = "connect"

\* The calls of a client that the tick and refreshToolsForClient await
\* through withTimeout(promise, timeoutMs, message): its timer rejects the
\* returned promise when the call has not settled by then.
withTimeout(call) == call \in {"connect", "listTools", "listPrompts", "listResources"}

\* The interval timer fires once more, with no tick running (with one
\* running the callback returns at once).
TimerFireAgain ==
  /\ ~MicrotasksPending
  /\ healthCheckInterval
  /\ ~tickGuard
  /\ \A k \in DOMAIN attempts : attempts[k].pc = "done"
  /\ \A o \in DOMAIN conns : conns[o].stale < MaxStale
  /\ healthCheckInFlight' = TRUE
  /\ LET tk == [todo |-> entriesOf, cur |-> NoEntry, pc |-> "start",
                failed |-> {}, reconn |-> {}]
         free == {u \in DOMAIN ticks : ticks[u] = DoneTick}
         t == IF free = {} THEN Len(ticks) + 1 ELSE CHOOSE u \in free : TRUE
         base == IF free = {} THEN Append(ticks, tk) ELSE [ticks EXCEPT ![t] = tk]
     IN tickLoop(tk, t, base, attempts, conns)
  /\ UNCHANGED <<states, clients, pendingConnections, discs, dall, healthCheckInterval,
                 hist>>
  /\ UNCHANGED <<servers, caches, refreshes>>
  /\ UNCHANGED besidesManager

\* A continuation that is ready runs: the finally of a connectPromise, the
\* finally of a tick.
Microtasks ==
  \/ \E k \in DOMAIN attempts : AttemptFinally(k)
  \/ \E t \in DOMAIN ticks : TickFinally(t)

\* The timer of a withTimeout of a tick fires when the call it wraps has not
\* settled.
TickTimeout ==
  \E t \in DOMAIN ticks :
    \/ withTimeout("connect") /\ TickReconnectTimeout(t)
    \/ withTimeout("listTools") /\ TickProbeFail(t)
    \/ withTimeout("listTools") /\ RefreshToolsFail(<<"tick", t>>)
    \/ withTimeout("listPrompts") /\ RefreshPromptsFail(<<"tick", t>>)
    \/ withTimeout("listResources") /\ RefreshResourcesFail(<<"tick", t>>)

\* The same for the connectPromise of a getClient.
AttemptTimeout ==
  \E k \in DOMAIN attempts :
    \/ withTimeout("connect") /\ AttemptConnectTimeout(k)
    \/ withTimeout("listTools") /\ RefreshToolsFail(<<"attempt", k>>)
    \/ withTimeout("listPrompts") /\ RefreshPromptsFail(<<"attempt", k>>)
    \/ withTimeout("listResources") /\ RefreshResourcesFail(<<"attempt", k>>)

HealthNext ==
  \/ \E id \in ServerIds : GetClientConnect(id)
  \/ \E k \in DOMAIN attempts : AttemptConnectOk(k)
  \/ \E k \in DOMAIN attempts : AttemptConnectFail(k)
  \/ \E k \in DOMAIN attempts : AttemptConnectTimeout(k)
  \/ \E k \in DOMAIN attempts : AttemptFinally(k)
  \/ \E o \in DOMAIN conns : \E ok \in BOOLEAN : LateConnect(o, ok)
  \/ startHealthChecks
  \/ TimerFire
  \/ TimerFireAgain
  \/ \E t \in DOMAIN ticks : TickReconnectOk(t)
  \/ \E t \in DOMAIN ticks : TickReconnectFail(t)
  \/ \E t \in DOMAIN ticks : TickReconnectTimeout(t)
  \/ \E t \in DOMAIN ticks : TickProbeOk(t)
  \/ \E t \in DOMAIN ticks : TickProbeFail(t)
  \/ \E t \in DOMAIN ticks : TickFinally(t)
  \/ \E w \in Refreshing : \E tools \in ToolLists : RefreshToolsOk(w, tools)
  \/ \E w \in Refreshing : RefreshToolsFail(w)
  \/ \E w \in Refreshing : \E prompts \in PromptLists : RefreshPromptsOk(w, prompts)
  \/ \E w \in Refreshing : RefreshPromptsFail(w)
  \/ \E w \in Refreshing : \E resources \in ResourceLists : RefreshResourcesOk(w, resources)
  \/ \E w \in Refreshing : RefreshResourcesFail(w)

HealthSpec ==
  /\ Init
  /\ [][HealthNext]_vars
  /\ WF_vars(Microtasks)
  /\ WF_vars(TickTimeout)
  /\ WF_vars(AttemptTimeout)
  /\ WF_vars(TimerFireAgain)

-----------------------------------------------------------------------------
(* The registry's own specification: the application calls the registry's    *)
(* operations one after the other (they are synchronous).                    *)

MaxRegistryOps == 3    \* calls made on the registry

Statuses == {"disconnected", "connecting", "connected", "error"}

\* The configs add is called with, and the partial configs update is called
\* with: what parseServerConfig returns, or the enabled flag alone.
Configs == {parseServerConfig(id, input).val : id \in ServerIds,
                                              input \in {i \in Inputs : parseServerConfig("a", i).ok}}

Updates ==
  {parseServerConfig("a", input) : input \in {i \in Inputs : parseServerConfig("a", i).ok}}
  \cup {[ok |-> TRUE, keys |-> {"enabled"}, val |-> NoConfig]}

\* createMcpRegistry with no config file, or with one that lists some of the
\* servers; nothing has subscribed yet.
RegistryInit ==
  /\ ManagerInit
  /\ registry \in {createMcpRegistry(DefaultDoc(ids)) :
                     ids \in {<<>>, <<"a">>, <<"b">>, IdOrder}}
  /\ called = NotCalled
  /\ selection = NotSelected
  /\ qcache = NewQueryCache(DEFAULT_MAX_SIZE)
  /\ exec = NotExecuting
  /\ wf = NotStarted
  /\ graph = NewGraph

Call(op) ==
  /\ called.n < MaxRegistryOps
  /\ \E x \in {perform(Run(registry), op)} :
        /\ registry' = [servers |-> x.servers, order |-> x.order,
                        states |-> x.states, handlers |-> x.handlers]
        /\ called' = [n |-> called.n + 1, op |-> op, events |-> x.events,
                      calls |-> x.calls, threw |-> x.threw]
  /\ UNCHANGED besidesRegistry

RegistryAdd(server) ==
  Call([NoCall EXCEPT !.name = "add", !.id = server.id, !.server = server])

RegistryRemove(id) ==
  Call([NoCall EXCEPT !.name = "remove", !.id = id])

RegistryUpdate(id, updates) ==
  Call([NoCall EXCEPT !.name = "update", !.id = id, !.updates = updates])

SetTools(id, tools) ==
  Call([NoCall EXCEPT !.name = "setTools", !.id = id, !.list = tools])

SetPrompts(id, prompts) ==
  Call([NoCall EXCEPT !.name = "setPrompts", !.id = id, !.list = prompts])

SetResources(id, resources) ==
  Call([NoCall EXCEPT !.name = "setResources", !.id = id, !.list = resources])

\* setStatus(id, status) and setStatus(id, "error", message)
SetStatus(id, status, error) ==
  /\ error # "undefined" => status = "error"
  /\ Call([NoCall EXCEPT !.name = "setStatus", !.id = id, !.status = status,
                         !.error = error])

LoadFromConfig(doc) ==
  Call([NoCall EXCEPT !.name = "loadFromConfig", !.doc = doc])

On(handler) ==
  Call([NoCall EXCEPT !.name = "on", !.handler = handler])

\* The function on(handler) returned is called.
Unsubscribe(handler) ==
  /\ indexOf(registry.handlers, handler) # 0
  /\ Call([NoCall EXCEPT !.name = "unsubscribe", !.handler = handler])

RegistryNext ==
  \/ \E server \in Configs : RegistryAdd(server)
  \/ \E id \in ServerIds : RegistryRemove(id)
  \/ \E id \in ServerIds : \E updates \in Updates : RegistryUpdate(id, updates)
  \/ \E id \in ServerIds : \E tools \in ToolLists : SetTools(id, tools)
  \/ \E id \in ServerIds : \E prompts \in PromptLists : SetPrompts(id, prompts)
  \/ \E id \in ServerIds : \E resources \in ResourceLists : SetResources(id, resources)
  \/ \E id \in ServerIds : \E status \in Statuses : \E error \in {"undefined", "boom"} :
       SetStatus(id, status, error)
  \/ \E doc \in Docs : LoadFromConfig(doc)
  \/ \E handler \in Handlers : On(handler)
  \/ \E handler \in Handlers : Unsubscribe(handler)

RegistrySpec == RegistryInit /\ [][RegistryNext]_vars

-----------------------------------------------------------------------------
(* The specification of tool selection: one of the scoring and selection     *)
(* functions is applied, once, to inputs drawn from bounded sets.            *)

MaxScored == 4

Tools ==
  { [name |-> <<"File", "read">>, description |-> <<"read", "the", "filesystem">>,
     title |-> <<>>],
    [name |-> <<"git">>, description |-> <<>>, title |-> <<"fetch", "io">>] }

KeywordLists ==
  {<<>>, <<"file">>, <<"read", "file">>, <<"git", "filesystem">>, <<"fetch">>}

ServerDomains == {"undefined", "files", "vcs", "custom"}

TagLists == {None, Some(<<>>), Some(<<"File">>), Some(<<"git", "file", "read">>)}

\* The last list ranks every domain that has keywords (custom has none).
InferredLists ==
  {<<>>, <<"files">>, <<"vcs", "files">>, <<"web", "vcs", "files">>,
   <<"travel", "ai", "security", "finance", "comm", "ops", "data", "web", "vcs", "files">>}

DomainLists == {None, Some(<<>>), Some(<<"files">>), Some(<<"vcs", "files">>)}

BoostLists == {None, Some(<<"files">>)}

\* A ToolSelectionContext (priorityDomains is the field tool-scorer.ts reads).
Context(prompt, currentFile, includeDomains, priorityDomains, excludeDomains) ==
  [prompt |-> prompt, currentFile |-> currentFile, userIntent |-> <<>>,
   includeDomains |-> includeDomains, priorityDomains |-> priorityDomains,
   excludeDomains |-> excludeDomains]

ScoreTool ==
  /\ selection.fn = "none"
  /\ \E tool \in Tools : \E serverDomain \in ServerDomains : \E serverTags \in TagLists :
       \E promptKeywords \in KeywordLists : \E inferredDomains \in InferredLists :
         \E includeDomains \in BoostLists : \E excludeDomains \in DomainLists :
           \E context \in {Context(promptKeywords, <<>>, includeDomains, None,
                                   excludeDomains)} :
             selection' =
               [fn |-> "scoreTool", tool |-> tool, serverDomain |-> serverDomain,
                serverTags |-> serverTags, keywords |-> promptKeywords,
                inferredDomains |-> inferredDomains, context |-> context,
                result |-> scoreTool(tool, "a", serverDomain, serverTags,
                                     promptKeywords, inferredDomains, context)]
  /\ UNCHANGED besidesSelection

ScoreToolOfScorer ==
  /\ selection.fn = "none"
  /\ \E tool \in Tools : \E serverDomain \in ServerDomains : \E serverTags \in TagLists :
       \E keywords \in KeywordLists : \E inferredDomains \in InferredLists :
         \E priorityDomains \in BoostLists : \E excludeDomains \in DomainLists :
           \E context \in {Context(keywords, <<>>, None, priorityDomains,
                                   excludeDomains)} :
             selection' =
               [fn |-> "scoreToolOfScorer", tool |-> tool, serverDomain |-> serverDomain,
                serverTags |-> serverTags, keywords |-> keywords,
                inferredDomains |-> inferredDomains, context |-> context,
                result |-> scoreToolOfScorer(tool, "a", serverDomain, serverTags,
                                             keywords, inferredDomains, context)]
  /\ UNCHANGED besidesSelection

\* The states of a server selectToolsForPrompt is given.
SelectableStates ==
  [config : [enabled : {"undefined", "false"}, domain : {"files", "vcs"},
             tags : {Some(<<"File">>)}],
   status : {"connected", "disconnected", "error"},
   tools : {None, Some(<<>>),
            Some(<<[name |-> <<"git">>, description |-> <<>>, title |-> <<"fetch", "io">>],
                   [name |-> <<"File", "read">>,
                    description |-> <<"read", "the", "filesystem">>, title |-> <<>>]>>)}]

Prompts == {<<>>, <<"read", "the", "File">>, <<"git">>}

NoNumber == [some |-> FALSE, v |-> 0]

SelectToolsForPrompt ==
  /\ selection.fn = "none"
  /\ \E stateA \in SelectableStates : \E stateB \in SelectableStates :
       \E prompt \in Prompts : \E currentFile \in {<<>>, <<"filesystem">>} :
         \E excludeDomains \in {None, Some(<<"files">>), Some(<<"vcs", "files">>)} :
           \E minScore \in {NoNumber, Some(0), Some(30)} :
             \E maxTools \in {NoNumber, Some(1)} :
               \E serverStates \in {<<[serverId |-> "a", state |-> stateA],
                                      [serverId |-> "b", state |-> stateB]>>} :
                 \E context \in {Context(prompt, currentFile, None, None, excludeDomains)} :
                   \E options \in {[minScore |-> minScore, maxTools |-> maxTools]} :
                     selection' =
                       [fn |-> "selectToolsForPrompt", serverStates |-> serverStates,
                        context |-> context, options |-> options,
                        result |-> selectToolsForPrompt(serverStates, context, options)]
  /\ UNCHANGED besidesSelection

\* The lists filterAndSortTools is given: up to MaxScored scored tools; ref
\* tells the tool objects apart.
ScoredLists ==
  UNION {[1 .. n -> {0, 30, 50, 100}] : n \in 0 .. MaxScored}

Scored(scores) ==
  [i \in DOMAIN scores |->
     [tool |-> [name |-> <<"tool">>, ref |-> i], serverId |-> "a", score |-> scores[i],
      matchReasons |-> <<>>]]

FilterAndSortTools ==
  /\ selection.fn = "none"
  /\ \E scores \in ScoredLists : \E minScore \in {0, 30, 60} :
       \E maxTools \in {0, 1, 2, 5} :
         selection' =
           [fn |-> "filterAndSortTools", scoredTools |-> Scored(scores),
            minScore |-> minScore, maxTools |-> maxTools,
            result |-> filterAndSortTools(Scored(scores), minScore, maxTools)]
  /\ UNCHANGED besidesSelection

\* The keyword lists inferDomains is given: up to MaxKeywords words, the
\* empty string (which every string includes) among them.
MaxKeywords == 3

KeywordWords == {"file", "filesystem", "read", "git", "fetch", "custom", ""}

InferDomains ==
  /\ selection.fn = "none"
  /\ \E n \in 0 .. MaxKeywords : \E keywords \in [1 .. n -> KeywordWords] :
       selection' = [fn |-> "inferDomains", keywords |-> keywords,
                     result |-> inferDomains(keywords)]
  /\ UNCHANGED besidesSelection

\* createSelectionContext(query, keywordExtractor, domainInferrer) with the
\* default adapters: both adapters start from extractKeywords(query).
createSelectionContext(query) ==
  [query |-> query, keywords |-> extractKeywords(query),
   domains |-> inferDomains(extractKeywords(query))]

\* matchReasons.filter((r) => r.startsWith(prefix)).length
RECURSIVE startingWith(_, _, _)
startingWith(matchReasons, prefixes, i) ==
  IF i > Len(matchReasons) THEN 0
  ELSE (IF matchReasons[i][1] \in prefixes THEN 1 ELSE 0)
       + startingWith(matchReasons, prefixes, i + 1)

\* The ToolScore the adapter builds of one tool; the breakdown in hundredths.
toolScore(tool, context) ==
  LET result == scoreToolOfScorer(tool, "default", "undefined", None, context.keywords,
                                  context.domains,
                                  Context(context.query, <<>>, None, None, None))
  IN [tool |-> tool, score |-> result.score,
      breakdown |-> [keywordScore |-> startingWith(result.matchReasons, {"name", "desc"}, 1) * 10,
                     domainScore |-> startingWith(result.matchReasons, {"domain"}, 1) * 20,
                     contextScore |-> 0]]

\* scores.find((s) => s.tool.name === sorted.tool.name): the first ToolScore
\* whose tool has that name.
find(scores, sortedTool) ==
  scores[CHOOSE i \in DOMAIN scores :
           /\ scores[i].tool.name = sortedTool.name
           /\ \A j \in 1 .. i - 1 : scores[j].tool.name # sortedTool.name]

\* createToolScorerAdapter().scoreTools(tools, context, config)
scoreToolsOfAdapter(tools, context, config) ==
  LET scores == [i \in DOMAIN tools |-> toolScore(tools[i], context)]
      sortedTools ==
        filterAndSortTools([i \in DOMAIN scores |->
                              [tool |-> scores[i].tool, serverId |-> "default",
                               score |-> scores[i].score, matchReasons |-> <<>>]],
                           config.minScore, config.maxTools)
  IN [n \in DOMAIN sortedTools |-> find(scores, sortedTools[n].tool)]

\* { ...DEFAULT_SELECTION_CONFIG, ...config }
fullConfigOf(config) ==
  [maxTools |-> IF config.maxTools.some THEN config.maxTools.v ELSE DefaultMaxTools,
   minScore |-> IF config.minScore.some THEN config.minScore.v ELSE DefaultMinScore]

\* selectToolsForQuery(tools, query, deps, config) with the default adapters.
selectToolsForQuery(tools, query, config) ==
  LET fullConfig == fullConfigOf(config)
      context == createSelectionContext(query)
      scores == scoreToolsOfAdapter(tools, context, fullConfig)
  IN slice(filter(scores, fullConfig.minScore), fullConfig.maxTools)

\* The pools selectToolsForQuery is given: up to MaxPool tools gathered from
\* the servers; the tool "git" is offered by two servers, with descriptions
\* of their own.
MaxPool == 3

PoolTools ==
  { [name |-> <<"git">>, description |-> <<>>],
    [name |-> <<"git">>, description |-> <<"read", "file">>],
    [name |-> <<"File", "read">>, description |-> <<"read", "the", "filesystem">>],
    [name |-> <<"fetch">>, description |-> <<"io">>] }

QueryTexts == {<<>>, <<"git">>, <<"git", "read">>, <<"read", "the", "File">>}

SelectToolsForQuery ==
  /\ selection.fn = "none"
  /\ \E n \in 0 .. MaxPool : \E tools \in [1 .. n -> PoolTools] : \E query \in QueryTexts :
       \E minScore \in {NoNumber, Some(0), Some(40)} :
         \E maxTools \in {NoNumber, Some(1), Some(2)} :
           \E config \in {[minScore |-> minScore, maxTools |-> maxTools]} :
             selection' =
               [fn |-> "selectToolsForQuery", tools |-> tools, query |-> query,
                config |-> fullConfigOf(config),
                result |-> selectToolsForQuery(tools, query, config)]
  /\ UNCHANGED besidesSelection

SelectionNext ==
  \/ ScoreTool
  \/ ScoreToolOfScorer
  \/ SelectToolsForPrompt
  \/ FilterAndSortTools
  \/ InferDomains
  \/ SelectToolsForQuery

SelectionSpec == Init /\ [][SelectionNext]_vars

-----------------------------------------------------------------------------
(* The specification of selection over the registry: the application calls   *)
(* selectToolsForPrompt(registry.listServerStates(), context, options), up   *)
(* to twice, on a registry that holds servers with cached tools.  The        *)
(* registry in full keeps a cached tool list as a number and leaves out the  *)
(* domain and the tags of a config: CachedTools, domainOf and tagsOf give    *)
(* them to the states the selection reads.                                   *)

CachedTools(n) ==
  CASE n = 0 -> None
    [] n = 1 -> Some(<<[name |-> <<"git">>, description |-> <<>>, title |-> <<"fetch", "io">>]>>)
    [] OTHER -> Some(<<[name |-> <<"git">>, description |-> <<>>, title |-> <<"fetch", "io">>],
                       [name |-> <<"File", "read">>,
                        description |-> <<"read", "the", "filesystem">>, title |-> <<>>]>>)

domainOf(id) == IF id = "a" THEN "files" ELSE "vcs"

tagsOf(id) == IF id = "a" THEN Some(<<"File">>) ELSE None

\* registry.listServerStates(): `new Map(states)`, a new Map of the same state
\* objects, in the order of the states Map.
listServerStates(r) ==
  [i \in DOMAIN r.order |->
     [serverId |-> r.order[i],
      state |-> [config |-> [enabled |-> IF r.states[r.order[i]].config.enabled
                                         THEN "true" ELSE "false",
                             domain |-> domainOf(r.order[i]),
                             tags |-> tagsOf(r.order[i])],
                 status |-> r.states[r.order[i]].status,
                 tools |-> CachedTools(r.states[r.order[i]].tools)]]]

afterSelectionConnects(r) ==
  [r EXCEPT !.states = [id \in ServerIds |->
                          IF r.states[id] = NoState THEN NoState
                          ELSE [r.states[id] EXCEPT !.status = "connecting"]]]

\* What selectToolsForPrompt leaves of the registry whose state objects it
\* was given: it assigns to none of them and calls nothing of the registry
\* or of the connection manager; it sorts and slices its own array only.
afterSelection(r) == r

\* The registry after the calls ops made one after the other.
RECURSIVE AfterCalls(_, _)
AfterCalls(r, ops) ==
  IF ops = <<>> THEN r
  ELSE LET x == perform(Run(r), Head(ops))
       IN AfterCalls([servers |-> x.servers, order |-> x.order, states |-> x.states,
                      handlers |-> x.handlers], Tail(ops))

\* The calls that prepare the registry: any of these, in this order.
SetupCalls ==
  <<[NoCall EXCEPT !.name = "setTools", !.id = "a", !.list = 2],
    [NoCall EXCEPT !.name = "setTools", !.id = "b", !.list = 1],
    [NoCall EXCEPT !.name = "setStatus", !.id = "a", !.status = "connected",
                   !.error = "undefined"],
    [NoCall EXCEPT !.name = "setStatus", !.id = "b", !.status = "error", !.error = "boom"],
    [NoCall EXCEPT !.name = "update", !.id = "b",
                   !.updates = [ok |-> TRUE, keys |-> {"enabled"}, val |-> NoConfig]]>>

RECURSIVE Chosen(_, _)
Chosen(ops, mask) ==
  IF ops = <<>> THEN <<>>
  ELSE (IF Head(mask) THEN <<Head(ops)>> ELSE <<>>) \o Chosen(Tail(ops), Tail(mask))

RegistrySelectionInit ==
  /\ ManagerInit
  /\ registry \in {AfterCalls(createMcpRegistry(DefaultDoc(ids)), Chosen(SetupCalls, mask)) :
                     ids \in {IdOrder, <<"b", "a">>},
                     mask \in [DOMAIN SetupCalls -> BOOLEAN]}
  /\ called = NotCalled
  /\ selection = NotSelected
  /\ qcache = NewQueryCache(DEFAULT_MAX_SIZE)
  /\ exec = NotExecuting
  /\ wf = NotStarted
  /\ graph = NewGraph

SelectFromRegistry ==
  /\ \/ selection.fn = "none"
     \/ selection.fn = "selectFromRegistry" /\ selection.before.fn = "none"
  /\ \E prompt \in Prompts : \E maxTools \in {NoNumber, Some(1)} :
       \E context \in {Context(prompt, <<>>, None, None, None)} :
         \E options \in {[minScore |-> Some(0), maxTools |-> maxTools]} :
           selection' =
             [fn |-> "selectFromRegistry", serverStates |-> listServerStates(registry),
              context |-> context, options |-> options,
              result |-> selectToolsForPrompt(listServerStates(registry), context, options),
              before |-> selection]
  /\ registry' = afterSelection(registry)
  /\ UNCHANGED <<called, managerVars, cacheVars, executorVars, orchestrationVars>>

RegistrySelectionNext == SelectFromRegistry

RegistrySelectionSpec == RegistrySelectionInit /\ [][RegistrySelectionNext]_vars

-----------------------------------------------------------------------------
(* The specification of the query cache: createQueryCache(maxSize), then the *)
(* application calls get, set and clear while the clock advances.            *)

MaxCacheOps == 4

MaxClock == 2

MaxSizes == {1, 2}

Ttls == {NoNumber, [some |-> TRUE, v |-> 1]}

CacheInit ==
  /\ ManagerInit
  /\ registry = createMcpRegistry(DefaultDoc(IdOrder))
  /\ called = NotCalled
  /\ selection = NotSelected
  /\ qcache \in {NewQueryCache(maxSize) : maxSize \in MaxSizes}
  /\ exec = NotExecuting
  /\ wf = NotStarted
  /\ graph = NewGraph

\* History: the queries that left the cache have no last use.
StillCached(usedAt, cache) ==
  [q \in Queries |-> IF keyIndex(cache, q) = 0 THEN 0 ELSE usedAt[q]]

CacheGet(query) ==
  /\ qcache.n < MaxCacheOps
  /\ \E g \in {cacheGet(qcache.c, query, qcache.now)} :
       qcache' = [qcache EXCEPT
                    !.c = g.c,
                    !.n = @ + 1,
                    !.last = [op |-> "get", query |-> query, found |-> g.found,
                              result |-> g.result],
                    !.usedAt = StillCached(IF g.found THEN [@ EXCEPT ![query] = qcache.n + 1]
                                           ELSE @, g.c.cache)]
  /\ UNCHANGED besidesCache

CacheSet(query, tools, ttl) ==
  /\ qcache.n < MaxCacheOps
  /\ \E c \in {cacheSet(qcache.c, query, tools, ttl, qcache.now)} :
       qcache' = [qcache EXCEPT
                    !.c = c,
                    !.n = @ + 1,
                    !.last = [op |-> "set", query |-> query, found |-> FALSE,
                              result |-> NoResult],
                    !.usedAt = StillCached([@ EXCEPT ![query] = qcache.n + 1], c.cache)]
  /\ UNCHANGED besidesCache

CacheClear ==
  /\ qcache.n < MaxCacheOps
  /\ qcache' = [qcache EXCEPT
                  !.c = cacheClear(qcache.c),
                  !.n = @ + 1,
                  !.last = [op |-> "clear", query |-> "undefined", found |-> FALSE,
                            result |-> NoResult],
                  !.usedAt = [q \in Queries |-> 0]]
  /\ UNCHANGED besidesCache

\* Date.now() advances.
ClockTick ==
  /\ qcache.now < MaxClock
  /\ qcache' = [qcache EXCEPT !.now = @ + 1]
  /\ UNCHANGED besidesCache

CacheNext ==
  \/ \E query \in Queries : CacheGet(query)
  \/ \E query \in Queries : \E ttl \in Ttls : CacheSet(query, 1, ttl)
  \/ CacheClear
  \/ ClockTick

CacheSpec == CacheInit /\ [][CacheNext]_vars

-----------------------------------------------------------------------------
(* The specification of the tool executors: one tool call, by the executor   *)
(* of createMcpExecutor or by the execute function of an AI SDK tool, with   *)
(* every outcome of getClient and of callTool.                                *)

\* What getClient rejects with (connection.ts) and what callTool rejects
\* with: an Error of the client, or a value that is not an Error.
GetClientFailures ==
  {Thrown("getClient", TRUE, m) :
     m \in {"not found in registry", "is disabled", "connect failed", "Connection timed out"}}

CallToolFailures ==
  {Thrown("callTool", TRUE, "Client not connected"), Thrown("callTool", TRUE, "timed out"),
   Thrown("callTool", FALSE, "oops")}

Contents ==
  {<<>>, <<[type |-> "text", text |-> ""]>>, <<[type |-> "text", text |-> "boom"]>>,
   <<[type |-> "text", text |-> "{}"]>>,
   <<[type |-> "image", text |-> "none"], [type |-> "text", text |-> "boom"]>>,
   <<[type |-> "text", text |-> ""], [type |-> "text", text |-> ""]>>}

ToolResults ==
  [isError : {"undefined", "false", "true"},
   structuredContent : {"undefined", "value", "circular"},
   content : Contents]

\* The call starts: `await connectionManager.getClient(serverId)`.
Execute(fn, serverId) ==
  /\ exec.pc = "idle"
  /\ exec' = [exec EXCEPT !.pc = "getClient", !.fn = fn, !.serverId = serverId]
  /\ UNCHANGED besidesExecutor

\* getClient rejected.
GetClientRejected(error) ==
  /\ exec.pc = "getClient"
  /\ exec' = [exec EXCEPT
                !.pc = "done", !.failure = error,
                !.outcome = IF exec.fn = "executor" THEN executorCatch(error)
                            ELSE aiSdkCatch(error)]
  /\ UNCHANGED besidesExecutor

\* getClient resolved: `await client.callTool(...)`.
GetClientResolved ==
  /\ exec.pc = "getClient"
  /\ exec' = [exec EXCEPT !.pc = "callTool"]
  /\ UNCHANGED besidesExecutor

\* callTool rejected.
CallToolRejected(error) ==
  /\ exec.pc = "callTool"
  /\ exec' = [exec EXCEPT
                !.pc = "done", !.failure = error,
                !.outcome = IF exec.fn = "executor" THEN executorCatch(error)
                            ELSE aiSdkCatch(error)]
  /\ UNCHANGED besidesExecutor

\* callTool resolved with result.
CallToolResolved(result) ==
  /\ exec.pc = "callTool"
  /\ exec' = [exec EXCEPT
                !.pc = "done", !.result = result,
                !.outcome = IF exec.fn = "executor" THEN executorReturn(result)
                            ELSE aiSdkReturn(result)]
  /\ UNCHANGED besidesExecutor

ExecutorNext ==
  \/ \E fn \in {"executor", "aiSdk"} : \E serverId \in ServerIds : Execute(fn, serverId)
  \/ \E error \in GetClientFailures : GetClientRejected(error)
  \/ GetClientResolved
  \/ \E error \in CallToolFailures : CallToolRejected(error)
  \/ \E result \in ToolResults : CallToolResolved(result)

ExecutorSpec == Init /\ [][ExecutorNext]_vars

-----------------------------------------------------------------------------
(* The specification of the workflow executor: one execute call on a         *)
(* workflow of up to MaxSteps steps, with every outcome of every attempt;    *)
(* the caller may abort the signal at any time.                              *)

MaxSteps == 2

StepConfigs ==
  [condition : {"undefined", "true", "false"},
   retry : {NoNumber, [some |-> TRUE, v |-> 2]}]

Workflows ==
  [mode : {"sequential", "parallel", "conditional"},
   steps : UNION {[1 .. n -> StepConfigs] : n \in 1 .. MaxSteps}]

Outcomes == {"okData", "ok", "failed", "failedSilent"}

WorkflowExecute ==
  /\ wf.pc = "idle"
  /\ \E workflow \in Workflows : \E aborted \in BOOLEAN :
       wf' = execute(workflow, aborted)
  /\ UNCHANGED <<graph, besidesOrchestration>>

\* options.signal is aborted by the caller.
Abort ==
  /\ wf.pc \in {"attempt", "backoff", "all"}
  /\ ~wf.aborted
  /\ wf' = [wf EXCEPT !.aborted = TRUE]
  /\ UNCHANGED <<graph, besidesOrchestration>>

\* Sequential branch: the awaited toolExecutor.execute resolves.
AttemptResolved(outcome) ==
  /\ wf.pc = "attempt"
  /\ wf' = sequentialAfter(wf, wf.cur, outcome)
  /\ UNCHANGED <<graph, besidesOrchestration>>

\* Sequential branch: the awaited toolExecutor.execute rejects.
AttemptRejected ==
  /\ wf.pc = "attempt"
  /\ wf' = caught([wf EXCEPT !.log[wf.cur] = Append(@, "threw")])
  /\ UNCHANGED <<graph, besidesOrchestration>>

\* Sequential branch: the backoff timer fired; the next attempt is invoked.
BackoffElapsed ==
  /\ wf.pc = "backoff"
  /\ wf' = [invoked(wf, wf.cur) EXCEPT !.pc = "attempt"]
  /\ UNCHANGED <<graph, besidesOrchestration>>

\* Parallel branch: the execute of step i resolves; Promise.all resolves with
\* the last of them and the results are collected.
ParallelResolved(i, outcome) ==
  /\ wf.pc = "all"
  /\ wf.settled[i] = "pending"
  /\ \E w \in {[wf EXCEPT !.settled[i] = outcome, !.log[i] = Append(@, outcome)]} :
       wf' = IF allSettled(w) THEN parallelCollect(w, 1) ELSE w
  /\ UNCHANGED <<graph, besidesOrchestration>>

\* Parallel branch: the execute of step i rejects, and with it Promise.all.
ParallelRejected(i) ==
  /\ wf.pc = "all"
  /\ wf.settled[i] = "pending"
  /\ wf' = caught([wf EXCEPT !.settled[i] = "threw", !.log[i] = Append(@, "threw")])
  /\ UNCHANGED <<graph, besidesOrchestration>>

WorkflowNext ==
  \/ WorkflowExecute
  \/ Abort
  \/ \E outcome \in Outcomes : AttemptResolved(outcome)
  \/ AttemptRejected
  \/ BackoffElapsed
  \/ \E i \in DOMAIN wf.steps : \E outcome \in Outcomes : ParallelResolved(i, outcome)
  \/ \E i \in DOMAIN wf.steps : ParallelRejected(i)

WorkflowSpec == Init /\ [][WorkflowNext]_vars

-----------------------------------------------------------------------------
(* The specification of the dependency graph: up to MaxEdges addDependency   *)
(* calls, and getAllDependencies calls between them.                         *)

MaxEdges == 4

ToolNames == {"t1", "t2", "t3", "t4"}

AddDependency(toolName, dependsOn) ==
  /\ graph.edges < MaxEdges
  /\ graph' = [graph EXCEPT
                 !.dependencies = addDependency(@, toolName, dependsOn),
                 !.edges = @ + 1,
                 !.last = [op |-> "addDependency", tool |-> toolName, result |-> <<>>]]
  /\ UNCHANGED <<wf, besidesOrchestration>>

GetAllDependencies(toolName) ==
  /\ graph' = [graph EXCEPT
                 !.last = [op |-> "getAllDependencies", tool |-> toolName,
                           result |-> getAllDependencies(graph.dependencies, toolName)]]
  /\ UNCHANGED <<wf, besidesOrchestration>>

GraphNext ==
  \/ \E toolName \in ToolNames : \E dependsOn \in ToolNames : AddDependency(toolName, dependsOn)
  \/ \E toolName \in ToolNames : GetAllDependencies(toolName)

GraphSpec == Init /\ [][GraphNext]_vars

-----------------------------------------------------------------------------
(* Properties of the connection manager *)

TimeoutMessages == {"Connection timed out", "Health-check reconnect timed out"}

\* connect() invocations for id that the manager is awaiting.
AwaitedConnects(id) ==
  Cardinality({k \in DOMAIN attempts : attempts[k].id = id /\ attempts[k].pc = "connect"})
  + Cardinality({t \in DOMAIN ticks : ticks[t].pc = "reconnect" /\ ticks[t].cur.id = id})

\* Client o is connected or being connected.
Live(o) ==
  \/ conns[o].isConnected /\ ~conns[o].closeFailed
  \/ \E k \in DOMAIN attempts : attempts[k].pc = "connect" /\ attempts[k].obj = o
  \/ \E t \in DOMAIN ticks : ticks[t].pc = "reconnect" /\ ticks[t].cur.obj = o

\* No operation concerning id is pending.
Settled(id) ==
  /\ AliveAttempts(id) = {}
  /\ \A d \in DOMAIN discs : discs[d].id # id
  /\ \A t \in DOMAIN ticks : ~TickHolds(t, id)
  /\ \A o \in DOMAIN conns : conns[o].id = id => conns[o].stale = 0
  /\ \A c \in DOMAIN refreshes : refreshes[c].id # id

\* C1: single-flight connect. While a connect attempt started by getClient(id)
\* is in flight and neither a disconnect(id) nor a health-check tick is
\* interleaved with the connect attempts of id, connect() has been invoked
\* for id exactly once, and every getClient(id) call made while no connection
\* of id reported connected got the promise of that one attempt (so all get
\* its outcome): the pending map and the client map point to it.
C1_SingleFlight ==
  \A k \in DOMAIN attempts :
    (attempts[k].pc = "connect" /\ attempts[k].clean) =>
      /\ attempts[k].invoked = 1
      /\ attempts[k].missed = 0
      /\ pendingConnections[attempts[k].id] = k
      /\ clients[attempts[k].id] = attempts[k].obj

\* Two getClient calls share one in-flight connect attempt.
C1_Witness ==
  \E k \in DOMAIN attempts :
    attempts[k].pc = "connect" /\ attempts[k].clean /\ attempts[k].joined >= 2

\* C2: per-id serialization. There are never two connect() invocations for
\* the same server id in flight at the same time.
C2_Serialized == \A id \in ServerIds : AwaitedConnects(id) <= 1

\* C3: at most one live connection object per server id. No two client
\* objects of the same id are connected or connecting at the same time.
C3_OneLiveObject ==
  \A o1, o2 \in DOMAIN conns :
    (o1 # o2 /\ conns[o1].id = conns[o2].id) => ~(Live(o1) /\ Live(o2))

\* C4: a connect attempt that exceeds its timeout sets the status of its
\* server to "error" (with the timeout message), and when its connect()
\* settles afterwards the registry is not touched: the attempt never sets
\* "connected".
C4_TimeoutNeverConnected ==
  [][\A o \in DOMAIN conns :
       /\ conns'[o].stale > conns[o].stale =>
            (hasServer(conns[o].id) =>
               /\ states'[conns[o].id].status = "error"
               /\ states'[conns[o].id].error \in TimeoutMessages)
       /\ conns'[o].stale < conns[o].stale => states' = states]_vars

\* A connect() resolved after its attempt had timed out: the client reports
\* connected and the status is still the timeout error.
C4_Witness ==
  \E o \in DOMAIN conns :
    /\ conns[o].isConnected
    /\ conns[o].stale = 0
    /\ hist.timedOut[conns[o].id]
    /\ states[conns[o].id].status = "error"
    /\ states[conns[o].id].error \in TimeoutMessages

\* C5: after a connect attempt of id has timed out, and until a connect
\* attempt of id succeeds, isConnected(id) is false (getClient(id) has no
\* already-connected client to return).
C5_TimedOutNotConnected ==
  \A id \in ServerIds : hist.timedOut[id] => ~isConnected(id)

\* C6: disconnect cancels a pending connect. Once a disconnect(id) called
\* while a connect attempt of getClient(id) was in flight has returned, and
\* no getClient(id) was called since, the status of id is not "connected"
\* and the client of that attempt is not connected.
C6_DisconnectCancels ==
  \A k \in DOMAIN attempts :
    attempts[k].cancel = "done" =>
      /\ states[attempts[k].id].status # "connected"
      /\ ~conns[attempts[k].obj].isConnected

\* C7: removed servers never leak a connection. When id is not registered
\* and nothing concerning id is pending, the manager holds no client for id
\* and no client of id is connected (a client whose close() threw, and the
\* clients of connect attempts that timed out, aside).
C7_RemovedNeverLeaks ==
  \A id \in ServerIds :
    (~hasServer(id) /\ Settled(id) /\ ~hist.timedOut[id]) =>
      /\ clients[id] = 0
      /\ \A o \in DOMAIN conns :
           conns[o].id = id => (~conns[o].isConnected \/ conns[o].closeFailed)

\* C8: disconnectAll has all-settled semantics. It never rejects, and when
\* it resolves (no getClient for its servers having been called meanwhile)
\* every server that had a client when it was called has no client in the
\* manager and, if registered, status "disconnected".
C8_AllSettled ==
  /\ [](dall.st # "rejected")
  /\ [][(dall.st = "pending" /\ dall'.st = "resolved" /\ dall'.clean) =>
          \A id \in dall.ids :
            /\ clients'[id] = 0
            /\ states'[id].status \in {"absent", "disconnected"}]_vars

\* C9: health-check ticks never overlap. At most one tick body is running,
\* and the in-flight guard is set while it runs.
C9_NoOverlap ==
  /\ Cardinality(RunningTicks) <= 1
  /\ RunningTicks # {} => healthCheckInFlight

\* The timer fired while a tick was running and started nothing.
C9_Witness == hist.skips >= 1 /\ Cardinality(RunningTicks) = 1

\* C10: when the liveness probe of a connected client fails in a tick, the
\* status of the server is set to "disconnected" and the tick does not
\* invoke connect() for that server.
C10_ProbeFailureNoReconnect ==
  /\ [](\A t \in DOMAIN ticks : ticks[t].failed \cap ticks[t].reconn = {})
  /\ [][\A t \in DOMAIN ticks : \A id \in ServerIds :
          (id \in ticks'[t].failed /\ id \notin ticks[t].failed) =>
            /\ hasServer(id) => states'[id] = [status |-> "disconnected", error |-> "none"]
            /\ AwaitedConnects(id)' <= AwaitedConnects(id)]_vars

\* A probe failed: the status is "disconnected", the client still reports
\* connected and the tick goes on.
C10_Witness ==
  \E t \in DOMAIN ticks : \E id \in ticks[t].failed :
    /\ states[id].status = "disconnected"
    /\ isConnected(id)
    /\ AwaitedConnects(id) = 0

\* A step of tick t in which the reconnect or the probe of its current entry
\* fails or times out.
TickFailure(t) ==
  /\ t \in DOMAIN ticks
  /\ TickReconnectFail(t) \/ TickReconnectTimeout(t) \/ TickProbeFail(t)

\* C11: failure containment in the health-check loop. A step in which the
\* reconnect or the probe of one server fails changes the status of that
\* server only and no cache and no config; the tick does not end there: it
\* takes another entry of its snapshot, none of which is dropped, or, with
\* none left, reaches its end normally.
C11_FailureContained ==
  [][\A t \in DOMAIN ticks :
       TickFailure(t) =>
         /\ \A id \in ServerIds \ {ticks[t].cur.id} : states'[id] = states[id]
         /\ caches' = caches
         /\ servers' = servers
         /\ clients' = clients
         /\ IF ticks[t].todo = {}
            THEN ticks'[t].pc = "finally"
            ELSE /\ ticks'[t].pc \in {"reconnect", "probe"}
                 /\ ticks'[t].cur \in ticks[t].todo
                 /\ ticks'[t].todo = ticks[t].todo \ {ticks'[t].cur}]_vars

\* After the reconnect of one server failed in a tick, the tick is busy with
\* another server, whose status and caches are those of a refreshed connection.
C11_Witness ==
  \E t \in DOMAIN ticks : \E id \in ticks[t].reconn :
    /\ ticks[t].pc \in {"reconnect", "probe"}
    /\ ticks[t].cur.id # id
    /\ states[id].status = "error"
    /\ states[ticks[t].cur.id].status = "connected"
    /\ caches[ticks[t].cur.id].tools # 0

\* A step in which tick t invokes client.connect() for id.
TickConnects(t, id) ==
  /\ ticks'[t].pc = "reconnect"
  /\ ticks'[t].cur.id = id
  /\ (t \notin DOMAIN ticks \/ ticks[t].pc # "reconnect" \/ ticks[t].cur # ticks'[t].cur)

\* C12: disabled servers are excluded from connection. While the config of a
\* registered server has enabled = false, no getClient(id) call returns a
\* client and no tick of the health-check loop invokes connect() for it.
C12_DisabledExcluded ==
  [][\A id \in ServerIds :
       (hasServer(id) /\ ~servers[id].enabled) =>
         /\ ~GetClientExisting(id)
         /\ \A t \in DOMAIN ticks' : ~TickConnects(t, id)]_vars

\* What a failed connect attempt of getClient leaves in the status.
ConnectFailures == {"connect failed", "Connection timed out"}

\* C13: connect failure outcome. When the connect attempt started by
\* getClient(id) fails or times out, no disconnect(id) being interleaved with
\* it or with the attempts of id it overlaps (cut), the one promise all its
\* waiters hold rejects, the status
\* of id is "error" with the failure message and the manager holds no client
\* for id; once the finally block has run there is no pending entry either,
\* so that the next getClient(id) starts a fresh attempt.
C13_ConnectFailure ==
  [][\A k \in DOMAIN attempts :
       ~attempts[k].cut =>
         /\ (attempts[k].pc = "connect" /\ attempts'[k].pc = "finally") =>
              /\ attempts'[k].failed
              /\ hasServer(attempts[k].id) =>
                   /\ states'[attempts[k].id].status = "error"
                   /\ states'[attempts[k].id].error \in ConnectFailures
              /\ clients'[attempts[k].id] = 0
         /\ (attempts[k].pc = "finally" /\ attempts[k].failed /\ attempts'[k].pc = "done") =>
              /\ clients'[attempts[k].id] = 0
              /\ pendingConnections'[attempts[k].id] = 0]_vars

\* A connect attempt with two waiters has failed: status "error", no client.
C13_Witness ==
  \E k \in DOMAIN attempts :
    /\ attempts[k].pc = "finally"
    /\ attempts[k].failed
    /\ ~attempts[k].cut
    /\ attempts[k].joined >= 2
    /\ states[attempts[k].id].status = "error"
    /\ clients[attempts[k].id] = 0

\* The refreshToolsForClient call w returns normally in this step: the
\* connectPromise of a getClient resolves, a refreshTools call resolves, a
\* tick goes on.
ReturnsNormally(w) ==
  /\ w[1] = "attempt" => attempts'[w[2]].pc = "finally" /\ ~attempts'[w[2]].failed
  /\ w[1] = "tick" => ticks'[w[2]].pc \in {"reconnect", "probe", "finally"}
  /\ w[1] = "call" => Len(refreshes') = Len(refreshes) - 1

\* C14: refresh failures never change the connection outcome or clear
\* caches. When listTools fails or times out in a refresh, the cached tools,
\* prompts and resources stay as they were and the refresh returns normally;
\* when listTools succeeds the tools cache is replaced by its result and
\* nothing else changes; when listPrompts (listResources) fails afterwards,
\* every cache stays as it is. No step of a refresh changes a status.
C14_RefreshFailures ==
  [][\A w \in Refreshing :
       /\ RefreshToolsFail(w) =>
            caches' = caches /\ states' = states /\ ReturnsNormally(w)
       /\ \A tools \in ToolLists :
            (RefreshToolsOk(w, tools) /\ hasServer(refreshOf(w).id)) =>
              /\ caches' = [caches EXCEPT ![refreshOf(w).id].tools = tools]
              /\ states' = states
       /\ RefreshPromptsFail(w) => caches' = caches /\ states' = states
       /\ RefreshResourcesFail(w) =>
            caches' = caches /\ states' = states /\ ReturnsNormally(w)]_vars

\* The refresh after a connect replaced the tools, listPrompts failed and
\* listResources succeeded; getClient resolves with the client.
C14_Witness ==
  \E k \in DOMAIN attempts :
    /\ attempts[k].pc = "finally"
    /\ ~attempts[k].failed
    /\ caches[attempts[k].id].tools # 0
    /\ caches[attempts[k].id].prompts = 0
    /\ caches[attempts[k].id].resources # 0
    /\ states[attempts[k].id].status = "connected"

-----------------------------------------------------------------------------
(* Properties of the registry *)

Range(s) == {s[i] : i \in DOMAIN s}

\* This step is a call of the named registry operation.
RegistryStep(name) == called'.n = called.n + 1 /\ called'.op.name = name

\* The call of this step emitted an event of the type for the server.
Emitted(type, id) ==
  \E i \in DOMAIN called'.events :
    called'.events[i].type = type /\ called'.events[i].serverId = id

\* C15: for every setStatus call on a registered server, in any sequence of
\* calls: server:connected is emitted exactly when the status goes from a
\* value other than connected to connected; server:disconnected is emitted
\* only when the previous status was connected; server:error is emitted on
\* every call that sets the status error, whatever the previous status;
\* repeating connected or disconnected emits nothing.
C15_EdgeTriggered ==
  [][\A id \in ServerIds :
       (RegistryStep("setStatus") /\ called'.op.id = id /\ registry.states[id] # NoState) =>
         LET previousStatus == registry.states[id].status
             status == called'.op.status
         IN /\ ~called'.threw
            /\ registry'.states[id].status = status
            /\ Len(called'.events) <= 1
            /\ Emitted("server:connected", id)
                 <=> (status = "connected" /\ previousStatus # "connected")
            /\ Emitted("server:disconnected", id)
                 => (previousStatus = "connected" /\ status = "disconnected")
            /\ status = "error" =>
                 called'.events = <<Event("server:error", id,
                                          IF called'.op.error = "undefined"
                                          THEN "Unknown error" ELSE called'.op.error)>>
            /\ (status = previousStatus /\ status \in {"connected", "disconnected"})
                 => called'.events = <<>>]_vars

\* setStatus(id, "connected") was called on a server whose status was
\* connected already, and emitted nothing.
C15_Witness ==
  /\ called.n >= 2
  /\ called.op.name = "setStatus"
  /\ called.op.status = "connected"
  /\ ~called.threw
  /\ called.events = <<>>
  /\ registry.states[called.op.id].status = "connected"

\* C16: add with an id that is registered throws, emits no event and leaves
\* the config and the runtime state (status, error, cached tools, prompts,
\* resources) as they were; add with a fresh id stores the config, creates a
\* state with status "disconnected" and no cached tools, and emits exactly
\* one event, server:added.
C16_Add ==
  [][\A id \in ServerIds :
       (RegistryStep("add") /\ called'.op.id = id) =>
         IF registry.servers[id] # NoConfig
         THEN /\ called'.threw
              /\ called'.events = <<>>
              /\ called'.calls = <<>>
              /\ registry' = registry
         ELSE /\ ~called'.threw
              /\ registry'.servers[id] = called'.op.server
              /\ registry'.states[id].status = "disconnected"
              /\ registry'.states[id].tools = 0
              /\ registry'.states[id].prompts = 0
              /\ registry'.states[id].resources = 0
              /\ called'.events = <<Event("server:added", id, "none")>>
              /\ \A other \in ServerIds \ {id} :
                   /\ registry'.servers[other] = registry.servers[other]
                   /\ registry'.states[other] = registry.states[other]]_vars

\* add was called with the id of a server in error with tools cached and
\* another config than the one given: it threw and the server is as it was.
C16_Witness ==
  /\ called.op.name = "add"
  /\ called.threw
  /\ registry.servers[called.op.id] # called.op.server
  /\ registry.states[called.op.id].status = "error"
  /\ registry.states[called.op.id].tools # 0

\* The registry after the call of this step had it been made with no handler
\* subscribed.
Unobserved == perform(Run([registry EXCEPT !.handlers = <<>>]), called'.op)

\* C17: when a call emits events, every subscribed handler is invoked with
\* each of them (a handler subscribed when the call starts gets the first
\* event, a handler subscribed before and after the call gets every event),
\* whatever the handlers invoked before it do; the call does not throw; and
\* the servers and states maps end as the call leaves them when nobody
\* listens.
C17_ObserverIsolation ==
  [][(called'.n = called.n + 1 /\ called'.events # <<>>) =>
       /\ ~called'.threw
       /\ \A h \in Range(registry.handlers) :
            [handler |-> h, event |-> called'.events[1]] \in Range(called'.calls)
       /\ \A h \in Range(registry.handlers) \cap Range(registry'.handlers) :
            \A i \in DOMAIN called'.events :
              [handler |-> h, event |-> called'.events[i]] \in Range(called'.calls)
       /\ registry'.servers = Unobserved.servers
       /\ registry'.order = Unobserved.order
       /\ registry'.states = Unobserved.states]_vars

\* The entry of the document for the id, 0 if it has none.
entryOf(doc, id) ==
  IF \E i \in DOMAIN doc.entries : doc.entries[i].id = id
  THEN (CHOOSE i \in DOMAIN doc.entries : doc.entries[i].id = id)
  ELSE 0

FieldGroupPopulated(config) ==
  /\ config.transport \in Transports
  /\ config.f[RequiredField(config.transport)] # 0
  /\ \A k \in TransportFields \ FieldGroup(config.transport) : config.f[k] = 0

\* C19: every stored config has exactly the field group of its transport
\* populated and no field of another transport's group, after any sequence
\* of add, update and loadFromConfig given configs that satisfy it.
C19_FieldGroup ==
  \A id \in ServerIds :
    registry.servers[id] # NoConfig => FieldGroupPopulated(registry.servers[id])

-----------------------------------------------------------------------------
(* Properties of tool selection *)

\* The server's domain is in the excludeDomains of the context.
DomainExcluded(context, domain) ==
  context.excludeDomains.some /\ domain \in Range(context.excludeDomains.v)

\* C20: whatever the tool, the keywords, the inferred domains, the server
\* tags and the include or priority domains, both scoreTool functions return
\* score 0 and the single reason "excluded" when the server's domain is in
\* excludeDomains; and selectToolsForPrompt with a minScore above 0 (given
\* or the default) returns no tool of a server whose domain is excluded.
C20_ExcludeVeto ==
  /\ (/\ selection.fn \in {"scoreTool", "scoreToolOfScorer"}
      /\ DomainExcluded(selection.context, selection.serverDomain))
     => /\ selection.result.score = 0
        /\ selection.result.matchReasons = << <<"excluded", selection.serverDomain>> >>
  /\ (/\ selection.fn = "selectToolsForPrompt"
      /\ selection.options.minScore.some => selection.options.minScore.v > 0)
     => \A i \in DOMAIN selection.result :
          \A e \in DOMAIN selection.serverStates :
            selection.serverStates[e].serverId = selection.result[i].serverId
              => ~DomainExcluded(selection.context,
                                 selection.serverStates[e].state.config.domain)

\* scoreTool was applied to a tool of a server whose domain is excluded and
\* also the first inferred domain and an include domain, with a keyword that
\* equals a part of the tool's name and a tag that equals a keyword: 0.
C20_Witness ==
  /\ selection.fn = "scoreTool"
  /\ DomainExcluded(selection.context, selection.serverDomain)
  /\ selection.inferredDomains # <<>>
  /\ selection.inferredDomains[1] = selection.serverDomain
  /\ selection.context.includeDomains.some
  /\ selection.serverDomain \in Range(selection.context.includeDomains.v)
  /\ \E k \in DOMAIN selection.keywords :
       /\ selection.keywords[k] \in Range(lowerAll(selection.tool.name))
       /\ selection.serverTags.some
       /\ selection.keywords[k] \in Range(lowerAll(selection.serverTags.v))
  /\ selection.result.score = 0

\* C21: the score scoreTool returns lies between 0 and 1 (100 hundredths),
\* whatever the keyword and tag matches, the rank of the server's domain
\* among the inferred domains and the include and exclude lists.
C21_ScoreRange ==
  selection.fn = "scoreTool" =>
    /\ selection.result.score >= 0
    /\ selection.result.score <= 100

\* The score scoreTool returns for the arguments of the last call with one
\* more keyword at the end of the query keywords.
ScoreWith(keyword) ==
  scoreTool(selection.tool, "a", selection.serverDomain, selection.serverTags,
            Append(selection.keywords, keyword), selection.inferredDomains,
            selection.context).score

\* C22: scoring is monotonic in matches. With the tool, the server's domain
\* and tags, the inferred domains and the context held fixed, appending to
\* the query keywords a keyword equal to a keyword of the tool never
\* decreases the score scoreTool returns.
C22_Monotonic ==
  selection.fn = "scoreTool" =>
    \A k \in Range(toolKeywordsOf(selection.tool)) :
      ScoreWith(k) >= selection.result.score

\* scoreTool was applied with keywords that already match, and one more exact
\* match raises the score of one tool keyword and leaves it at the cap of
\* the keyword signal for another.
C22_Witness ==
  /\ selection.fn = "scoreTool"
  /\ selection.result.score > 0
  /\ ~DomainExcluded(selection.context, selection.serverDomain)
  /\ \E k \in Range(toolKeywordsOf(selection.tool)) :
       ScoreWith(k) > selection.result.score
  /\ keywordMatching(selection.keywords, toolKeywordsOf(selection.tool), 1, 1,
                     [halves |-> 0, reasons |-> <<>>]).halves >= 7

\* C23: filterAndSortTools(tools, minScore, maxTools) with maxTools >= 0
\* returns at most maxTools entries of the input, each once, each with a
\* score >= minScore, in non-increasing order of score; an entry that
\* qualifies is left out only when maxTools entries are returned, and then
\* its score is not above the score of any returned entry.
C23_FilterAndSort ==
  selection.fn = "filterAndSortTools" =>
    LET given == selection.scoredTools
        out == selection.result
    IN /\ Len(out) <= selection.maxTools
       /\ \A i \in DOMAIN out : out[i].score >= selection.minScore
       /\ \A i, j \in DOMAIN out : i < j => out[i].score >= out[j].score
       /\ \A i, j \in DOMAIN out : i # j => out[i] # out[j]
       /\ Range(out) \subseteq Range(given)
       /\ \A e \in Range(given) \ Range(out) :
            e.score >= selection.minScore =>
              /\ Len(out) = selection.maxTools
              /\ \A r \in Range(out) : r.score >= e.score

\* filterAndSortTools was given an unsorted list with an entry below
\* minScore and more qualifying entries than maxTools = 2.
C23_Witness ==
  /\ selection.fn = "filterAndSortTools"
  /\ selection.maxTools = 2
  /\ Len(selection.result) = 2
  /\ \E e \in Range(selection.scoredTools) : e.score < selection.minScore
  /\ \E e \in Range(selection.scoredTools) \ Range(selection.result) :
       e.score >= selection.minScore
  /\ \E i, j \in DOMAIN selection.scoredTools :
       i < j /\ selection.scoredTools[i].score < selection.scoredTools[j].score
  /\ selection.result[1].score > selection.result[2].score

\* C24: every tool selectToolsForPrompt returns is in the cached tools of the
\* server its serverId names, and that server is enabled and not in status
\* "error"; a server that is disabled, in error or without cached tools
\* contributes no entry, whatever the prompt and the options.
C24_FromCachedTools ==
  selection.fn = "selectToolsForPrompt" =>
    /\ \A i \in DOMAIN selection.result :
         \E e \in DOMAIN selection.serverStates :
           LET state == selection.serverStates[e].state
           IN /\ selection.serverStates[e].serverId = selection.result[i].serverId
              /\ state.config.enabled # "false"
              /\ state.status # "error"
              /\ state.tools.some
              /\ selection.result[i].tool \in Range(state.tools.v)
    /\ \A e \in DOMAIN selection.serverStates :
         LET state == selection.serverStates[e].state
         IN (\/ state.config.enabled = "false"
             \/ state.status = "error"
             \/ ~state.tools.some
             \/ state.tools.v = <<>>)
            => \A i \in DOMAIN selection.result :
                 selection.result[i].serverId # selection.serverStates[e].serverId

\* selectToolsForPrompt was given a server that is in error or disabled and
\* has cached tools, next to a server that contributes: the result holds
\* tools of the latter only.
C24_Witness ==
  /\ selection.fn = "selectToolsForPrompt"
  /\ selection.result # <<>>
  /\ \E e \in DOMAIN selection.serverStates :
       LET state == selection.serverStates[e].state
       IN /\ state.status = "error" \/ state.config.enabled = "false"
          /\ state.tools.some
          /\ state.tools.v # <<>>
          /\ \A i \in DOMAIN selection.result :
               selection.result[i].serverId # selection.serverStates[e].serverId

-----------------------------------------------------------------------------
(* Properties of the query cache *)

\* The queries the Map holds.
CachedQueries(cache) == {cache[i].query : i \in DOMAIN cache}

\* C26: whatever get, set and clear calls are made, with whatever query
\* strings, the number of cached entries never exceeds maxSize.
C26_SizeBound == Len(qcache.c.cache) <= qcache.c.maxSize

\* C27: when set inserts a query that is not cached into a cache at
\* capacity, exactly one entry leaves the cache and it is the least recently
\* used one (last inserted or read with a hit before every other); every
\* other entry stays as it was, and retrievable if it has not expired.
C27_EvictsLeastRecentlyUsed ==
  [][(/\ qcache'.n = qcache.n + 1
      /\ qcache'.last.op = "set"
      /\ qcache'.last.query \notin CachedQueries(qcache.c.cache)
      /\ Len(qcache.c.cache) >= qcache.c.maxSize) =>
       LET cached == CachedQueries(qcache.c.cache)
           lru == CHOOSE k \in cached : \A j \in cached : qcache.usedAt[k] <= qcache.usedAt[j]
       IN /\ CachedQueries(qcache'.c.cache) = (cached \ {lru}) \cup {qcache'.last.query}
          /\ Len(qcache'.c.cache) = Len(qcache.c.cache)
          /\ \A k \in cached \ {lru} :
               /\ qcache'.c.cache[keyIndex(qcache'.c.cache, k)]
                    = qcache.c.cache[keyIndex(qcache.c.cache, k)]
               /\ ~expired(qcache.c.cache[keyIndex(qcache.c.cache, k)], qcache.now)
                    => cacheGet(qcache'.c, k, qcache'.now).found]_vars

\* C28: a get(query) at a time later than the entry's timestamp + ttl
\* returns undefined, removes the entry and counts as a miss; a get at a time
\* not later than timestamp + ttl returns the entry and counts as a hit; a
\* get of a query that is not cached is a miss; every get increments exactly
\* one of the two counters, by one.
C28_Expiry ==
  [][(qcache'.n = qcache.n + 1 /\ qcache'.last.op = "get") =>
       LET query == qcache'.last.query
           i == keyIndex(qcache.c.cache, query)
           hit == /\ qcache'.c.hits = qcache.c.hits + 1
                  /\ qcache'.c.misses = qcache.c.misses
           miss == /\ qcache'.c.misses = qcache.c.misses + 1
                   /\ qcache'.c.hits = qcache.c.hits
       IN /\ hit \/ miss
          /\ i = 0 => ~qcache'.last.found /\ miss
          /\ (i # 0 /\ qcache.now > qcache.c.cache[i].timestamp + qcache.c.cache[i].ttl) =>
               /\ ~qcache'.last.found
               /\ query \notin CachedQueries(qcache'.c.cache)
               /\ miss
          /\ (i # 0 /\ qcache.now <= qcache.c.cache[i].timestamp + qcache.c.cache[i].ttl) =>
               /\ qcache'.last.found
               /\ qcache'.last.result = qcache.c.cache[i]
               /\ query \in CachedQueries(qcache'.c.cache)
               /\ hit]_vars

\* An entry set with ttl 1 was read with a hit, then, after its deadline,
\* read again: a miss that emptied the cache.
C28_Witness ==
  /\ qcache.last.op = "get"
  /\ ~qcache.last.found
  /\ qcache.n = 3
  /\ qcache.c.hits = 1
  /\ qcache.c.misses = 1
  /\ qcache.c.cache = <<>>
  /\ qcache.now = MaxClock

-----------------------------------------------------------------------------
(* Properties of the tool executors *)

\* C29: the executor of createMcpExecutor never rejects. When getClient
\* fails (server unknown, disabled or unreachable) or callTool fails, it
\* returns a result with isError = true whose text is the error's message;
\* a result the server flagged isError is returned with isError = true.
C29_ExecutorNeverRejects ==
  (exec.fn = "executor" /\ exec.pc = "done") =>
    /\ exec.outcome.kind = "returned"
    /\ exec.failure.at # "none" =>
         /\ exec.outcome.isError = "true"
         /\ exec.outcome.text = <<exec.failure.message>>
    /\ (exec.failure.at = "none" /\ exec.result.isError = "true") =>
         exec.outcome.isError = "true"

\* The executor was called for a disabled server: getClient rejected and the
\* executor returned the error as a result.
C29_Witness ==
  /\ exec.fn = "executor"
  /\ exec.pc = "done"
  /\ exec.failure.at = "getClient"
  /\ exec.failure.message = "is disabled"
  /\ exec.outcome.kind = "returned"
  /\ exec.outcome.isError = "true"

\* C30: the execute function of a tool built by createAiSdkTool returns a
\* structured error result instead of throwing when getClient fails or when
\* callTool fails.
C30_FailuresAsData ==
  (exec.fn = "aiSdk" /\ exec.pc = "done" /\ exec.failure.at # "none") =>
    /\ exec.outcome.kind = "returned"
    /\ exec.outcome.isError = "true"

-----------------------------------------------------------------------------
(* Properties of inferDomains.                                               *)

\* A keyword of the list and a keyword of the domain, one containing the other.
Hit(keywords, domain) ==
  \E i \in DOMAIN keywords : \E j \in DOMAIN DOMAIN_KEYWORDS(domain) :
    \/ includes(keywords[i], DOMAIN_KEYWORDS(domain)[j])
    \/ includes(DOMAIN_KEYWORDS(domain)[j], keywords[i])

Declared(domain) == CHOOSE i \in DOMAIN DomainOrder : DomainOrder[i] = domain

\* C31: inferDomains(keywords) returns each domain at most once, exactly the
\* domains with at least one hit, by hit count from the highest to the lowest
\* with ties in the declared order; a domain without a hit, and always the
\* custom domain, is absent, and the result is empty when no keyword hits.
C31_InferDomains ==
  selection.fn = "inferDomains" =>
    LET r == selection.result
        keywords == selection.keywords
        domains == {DomainOrder[i] : i \in DOMAIN DomainOrder}
    IN /\ \A i, j \in DOMAIN r : r[i] = r[j] => i = j
       /\ {r[i] : i \in DOMAIN r} = {d \in domains : Hit(keywords, d)}
       /\ \A i, j \in DOMAIN r :
            i < j =>
              \/ domainScore(keywords, r[i]) > domainScore(keywords, r[j])
              \/ /\ domainScore(keywords, r[i]) = domainScore(keywords, r[j])
                 /\ Declared(r[i]) < Declared(r[j])
       /\ \A i \in DOMAIN r : r[i] # "custom"
       /\ ((\A d \in domains : ~Hit(keywords, d)) => r = <<>>)

\* The domain declared later has more hits and comes first; the domains
\* without a hit are left out.
C31_Witness ==
  /\ selection.fn = "inferDomains"
  /\ selection.keywords = <<"git", "git", "read">>
  /\ selection.result = <<"vcs", "files">>

-----------------------------------------------------------------------------
(* Properties of the health-check loop under fair scheduling.                *)

\* C32: every health-check tick eventually finishes and resets the in-flight
\* guard, also when a server's connect(), listTools(), listPrompts() or
\* listResources() never settles.
C32_TickFinishes ==
  (healthCheckInFlight \/ RunningTicks # {}) ~> (~healthCheckInFlight /\ RunningTicks = {})

\* A tick has finished and reset the guard although the connect() it invoked
\* has not settled.
C32_Witness ==
  /\ ~healthCheckInFlight
  /\ \E t \in DOMAIN ticks : ticks[t] = DoneTick
  /\ \E o \in DOMAIN conns : conns[o].stale > 0 /\ ~conns[o].isConnected
  /\ \E id \in ServerIds : states[id].error = "Health-check reconnect timed out"

\* No operation of the manager for id is in flight: no connectPromise, no
\* disconnect or disconnectAll, no tick that still has id in its snapshot, no
\* refreshTools call, and no connect() left running by a timeout.
Quiet(id) ==
  /\ AliveAttempts(id) = {}
  /\ \A d \in DOMAIN discs : discs[d].id # id
  /\ dall.st # "pending"
  /\ \A t \in DOMAIN ticks : ~TickHolds(t, id)
  /\ \A c \in DOMAIN refreshes : refreshes[c].id # id
  /\ \A o \in DOMAIN conns : conns[o].id = id => conns[o].stale = 0

\* C33: no orphaned "connected" status. In every state in which no operation
\* for id is in flight, the status of id is "connected" only if the manager
\* holds a connection object for id.
C33_NoOrphanedConnected ==
  \A id \in ServerIds :
    (Quiet(id) /\ states[id].status = "connected") => clients[id] # 0

\* A tick's probe of the client of id succeeds / fails.
ProbeOk(id) == \E t \in DOMAIN ticks : ticks[t].cur.id = id /\ TickProbeOk(t)

ProbeFail(id) == \E t \in DOMAIN ticks : ticks[t].cur.id = id /\ TickProbeFail(t)

\* C34: status recovery. If from some point on the manager holds a connected
\* client for id and its probes succeed, tick after tick, then the status of
\* id becomes "connected" again, also after a probe failure set it to
\* "disconnected" or a timed-out reconnect of a tick set it to "error".
C34_StatusRecovers ==
  \A id \in ServerIds :
    (/\ <>[]isConnected(id)
     /\ <>[][~ProbeFail(id)]_vars
     /\ []<><<ProbeOk(id)>>_vars)
      => []<>(states[id].status = "connected")

-----------------------------------------------------------------------------
(* Unsubscribing while an event is dispatched.                               *)

\* How many times e stands in the sequence s.
Occurrences(s, e) == Cardinality({i \in DOMAIN s : s[i] = e})

\* C35: unsubscribing during dispatch loses no delivery. When a handler calls
\* an unsubscribe function while a call's events are dispatched, every other
\* handler that was subscribed when the call started and has not been
\* unsubscribed gets each event once (once for each time it is subscribed).
C35_UnsubscribeLosesNoDelivery ==
  [][(/\ called'.n = called.n + 1
      /\ called'.events # <<>>
      /\ Len(registry'.handlers) < Len(registry.handlers)) =>
       \A h \in Range(registry.handlers) :
         Occurrences(registry'.handlers, h) = Occurrences(registry.handlers, h) =>
           \A i \in DOMAIN called'.events :
             Occurrences(called'.calls, [handler |-> h, event |-> called'.events[i]])
               = Occurrences(registry.handlers, h) * Occurrences(called'.events, called'.events[i])]_vars

-----------------------------------------------------------------------------
(* Updating a cached query.                                                  *)

\* The entry of the query in the Map.
entryOfQuery(cache, query) == cache[keyIndex(cache, query)]

\* C36: query cache update in place. set(query, ...) for a query that is
\* cached replaces that entry's tools, timestamp and ttl and neither evicts
\* nor changes any other entry, also when the cache is at capacity.
C36_UpdateInPlace ==
  [][(/\ qcache'.n = qcache.n + 1
      /\ qcache'.last.op = "set"
      /\ qcache'.last.query \in CachedQueries(qcache.c.cache)) =>
       LET query == qcache'.last.query
       IN /\ CachedQueries(qcache'.c.cache) = CachedQueries(qcache.c.cache)
          /\ \A k \in CachedQueries(qcache.c.cache) \ {query} :
               entryOfQuery(qcache'.c.cache, k) = entryOfQuery(qcache.c.cache, k)
          /\ \E ttl \in Ttls :
               entryOfQuery(qcache'.c.cache, query) =
                 [query |-> query, tools |-> 1, timestamp |-> qcache.now,
                  ttl |-> IF ttl.some THEN ttl.v ELSE DEFAULT_TTL]]_vars

-----------------------------------------------------------------------------
(* Properties of the workflow executor.                                      *)

\* The last attempt of step i was successful.
EndedWell(i) == wf.log[i] # <<>> /\ success(wf.log[i][Len(wf.log[i])])

\* C37: the workflow executor supports the three execution modes. When
\* execute has returned, was not aborted and no step ended unsuccessfully,
\* every step whose condition is absent or true has been run and its result
\* is among the step results, whether the mode is sequential, parallel or
\* conditional.
C37_AllModes ==
  (/\ wf.pc = "done"
   /\ wf.lastError = "undefined"
   /\ \A i \in DOMAIN wf.steps : wf.log[i] = <<>> \/ EndedWell(i)) =>
    \A i \in DOMAIN wf.steps :
      passes(wf.steps[i]) =>
        /\ wf.attempts[i] >= 1
        /\ \E r \in DOMAIN wf.result.stepResults : wf.result.stepResults[r].step = i

\* C38: sequential retry and stop. When a sequential workflow that was not
\* aborted has returned: each executed step was attempted at most
\* retry.maxAttempts times (1 by default), no attempt followed a successful
\* one, no step was executed after the first step whose last attempt was
\* unsuccessful, and success is true exactly when every executed step ended
\* with a successful attempt.
C38_SequentialRetryAndStop ==
  (wf.pc = "done" /\ wf.mode = "sequential" /\ wf.lastError # "Workflow aborted") =>
    LET executed == {i \in DOMAIN wf.steps : wf.attempts[i] >= 1}
    IN /\ \A i \in executed :
            /\ wf.attempts[i] <= maxAttemptsOf(wf.steps[i])
            /\ Len(wf.log[i]) = wf.attempts[i]
            /\ \A j \in 1 .. (Len(wf.log[i]) - 1) : ~success(wf.log[i][j])
            /\ ~EndedWell(i) => \A k \in executed : k <= i
       /\ wf.result.success <=> \A i \in executed : EndedWell(i)

-----------------------------------------------------------------------------
(* Properties of the dependency graph.                                       *)

\* The dependsOn edges of the graph.
Edges(dependencies) ==
  {e \in ToolNames \X ToolNames :
     \E i \in DOMAIN dependencies :
       dependencies[i].tool = e[1] /\ e[2] \in Range(dependencies[i].deps)}

\* The tools at the end of a path of 1 to n edges that starts at one of from.
RECURSIVE Within(_, _, _)
Within(edges, from, n) ==
  IF n = 0 THEN {}
  ELSE LET next == {e[2] : e \in {d \in edges : d[1] \in from}}
       IN next \cup Within(edges, next, n - 1)

\* C39: getAllDependencies(tool) returns, for every graph built with
\* addDependency, cyclic ones included, exactly the tools that are reachable
\* from tool through one or more dependsOn edges, each once.
C39_AllDependencies ==
  graph.last.op = "getAllDependencies" =>
    /\ Range(graph.last.result) =
         Within(Edges(graph.dependencies), {graph.last.tool}, Cardinality(ToolNames))
    /\ \A i, j \in DOMAIN graph.last.result :
         graph.last.result[i] = graph.last.result[j] => i = j

\* A graph with a cycle through the tool asked for and a tool reached over
\* two edges only: the result holds the tool itself and both others.
C39_Witness ==
  /\ graph.last.op = "getAllDependencies"
  /\ graph.last.tool = "t1"
  /\ Edges(graph.dependencies) = {<<"t1", "t2">>, <<"t2", "t1">>, <<"t2", "t3">>}
  /\ Range(graph.last.result) = {"t1", "t2", "t3"}

-----------------------------------------------------------------------------
(* The default tool selector over a pool with a repeated tool name.          *)

\* The positions of the pool whose tool qualifies: its score, under the
\* context of the query, is at least minScore.
Qualifying(tools, query, minScore) ==
  {i \in DOMAIN tools : toolScore(tools[i], createSelectionContext(query)).score >= minScore}

\* C40: default tool selector. selectToolsForQuery with the default adapters
\* returns at most maxTools entries, one per qualifying tool of the pool (no
\* tool of the pool stands for two entries, and no qualifying tool is left out
\* while there is room), each with that tool's own score, which is at least
\* minScore, in non-increasing order of score, also when two tools of the
\* pool have the same name.
C40_DefaultSelector ==
  selection.fn = "selectToolsForQuery" =>
    LET result == selection.result
        tools == selection.tools
        qualifying == Qualifying(tools, selection.query, selection.config.minScore)
    IN /\ Len(result) = Min(Cardinality(qualifying), selection.config.maxTools)
       /\ \E from \in [DOMAIN result -> qualifying] :
            /\ \A m, n \in DOMAIN result : m # n => from[m] # from[n]
            /\ \A n \in DOMAIN result :
                 /\ result[n].tool = tools[from[n]]
                 /\ result[n].score
                      = toolScore(tools[from[n]], createSelectionContext(selection.query)).score
       /\ \A n \in DOMAIN result : result[n].score >= selection.config.minScore
       /\ \A n \in 1 .. Len(result) - 1 : result[n].score >= result[n + 1].score

====
